---- MODULE Spec2Model ----
(***************************************************************************)
(* The request-dispatch layer and the conversation state machine of the   *)
(* Call Center Compliance client (App component, send handler,            *)
(* postToAnyEndpoint).                                                     *)
(*                                                                         *)
(* Strings are sequences of tokens (a token is a character or an          *)
(* indivisible phrase), so that trimming, concatenation and substring     *)
(* tests are computed and not assumed.  Every action is one               *)
(* run-to-completion step of the single JavaScript thread: an event       *)
(* handler up to its first await, or the continuation of an await up to   *)
(* the next one.  React state set inside a step is visible to the next    *)
(* step.  Timestamps (ts) and the meta field of a turn are not modelled.  *)
(***************************************************************************)
EXTENDS Integers, Sequences, FiniteSets, TLC

VARIABLES
    messages,     \* the transcript (useState messages)
    input,        \* the textarea's text (useState input)
    isSending,    \* useState isSending
    docs,         \* useState docs: document key -> selected
    docAvail,     \* useState docAvail: document key -> available
    mode,         \* useState mode
    banner,       \* title of the banner, "none" when banner is null
    healthOk,     \* health.ok: "null", "true" or "false"
    pc,           \* where send() is suspended: "idle", "fetch" (the response
                  \* awaited), "body" (its body awaited) or "sleep"
    attempt,      \* send()'s loop variable attempt
    pidx,         \* index in paths of the POST in flight (postToAnyEndpoint's p)
    lastErr,      \* postToAnyEndpoint's lastErr
    last,         \* send()'s last: the value postToAnyEndpoint returned
    caught,       \* the error caught by send()'s outer catch
    lastResp,     \* history: the last outcome a POST of this submission got
    cycle1Err,    \* history: the error that ended attempt 1 before the backoff
    posts,        \* history: POSTs issued for this submission
    backoffs,     \* history: backoff sleeps started for this submission
    inflight,     \* history: fetches issued and not yet settled
    ev,           \* history: "send" when the last handler run was send()
    nextId,       \* genId: the next fresh identifier
    acceptsLeft,  \* submissions the model still accepts
    togglesLeft,  \* chip clicks the model still takes
    net,          \* the outcomes the network and backend may produce
    workbook,     \* the sheets XLSX.read finds in the matrix file
    corpora,      \* the document constants (hotelPlannerKnowledge, ...)
    matrixVoiceText,   \* useState matrixVoiceText
    matrixTicketText,  \* useState matrixTicketText
    matrixNotesText,   \* useState matrixNotesText
    matrixLoadError,   \* useState matrixLoadError, TRUE when a message is set
    matrixMode,   \* useState matrixMode
    docMode,      \* useState docMode
    kpc,          \* where loadMatrix() is: "none", "fetch" or "done"
    question,     \* useState question of the matrix client
    lastQuestion, \* useState lastQuestion
    answer,       \* useState answer
    isLoading,    \* useState isLoading
    errorMsg,     \* useState errorMsg
    isBillingError,  \* useState isBillingError
    request,      \* the body of the POST to /api/claude, NoRequest before it
    prevRun,      \* history: what the page showed before it was reloaded
    availPc,      \* the availability check of the documents: "check" or "done"
    probeNet,     \* what the HEAD requests and the health endpoint answer
    server        \* the completion-forwarding endpoint: the request it is
                  \* handling, the provider's outcome and its reply

askVars == <<question, lastQuestion, answer, isLoading, errorMsg, isBillingError,
             request>>

knowledgeVars == <<workbook, corpora, matrixVoiceText, matrixTicketText,
                   matrixNotesText, matrixLoadError, matrixMode, docMode, kpc,
                   askVars, prevRun>>

vars == <<messages, input, isSending, docs, docAvail, mode, banner, healthOk,
          pc, attempt, pidx, lastErr, last, caught, lastResp, cycle1Err,
          posts, backoffs, inflight, ev, nextId, acceptsLeft, togglesLeft, net,
          knowledgeVars, availPc, probeNet, server>>

----------------------------------------------------------------------------
(* Bounds of the model *)

MaxAccepted == 2
MaxToggles == 1
MaxRows == 3

(* Program constants *)

maxAttempts == 2

endpoints == <<"/api/claude", "/api/ask", "/ask", "/api/chat", "/chat",
               "/query", "/api/query">>

DocKeys == {"matrix", "trainingTxt", "trainingChunks", "qaVoice", "qaGroup"}

DEFAULT_DOCS == [k \in DocKeys |-> k \in {"matrix", "trainingTxt", "trainingChunks"}]

----------------------------------------------------------------------------
(* Text *)

Whitespace == {" ", "\n", "\r", "\t"}

\* String.prototype.toLowerCase on the tokens the model uses
Lower(tok) ==
    CASE tok = "Request Aborted" -> "request aborted"
      [] tok = "The user aborted a request." -> "the user aborted a request."
      [] tok = "Credit Balance Is Too Low" -> "credit balance is too low"
      [] tok = "Failed to fetch" -> "failed to fetch"
      [] tok = "HTTP " -> "http "
      [] tok = "Internal Server Error" -> "internal server error"
      [] tok = "Instructions" -> "instructions"
      [] tok = "INSTRUCTIONS" -> "instructions"
      [] OTHER -> tok

\* the phrases of the vocabulary that contain a needle as a proper substring
ContainedIn ==
    { <<"aborted", "request aborted">>,
      <<"aborted", "the user aborted a request.">>,
      <<"credit", "credit balance is too low">> }

\* String.prototype.includes: some token of hay is or contains needle
Includes(hay, needle) ==
    \E i \in DOMAIN hay : hay[i] = needle \/ <<needle, hay[i]>> \in ContainedIn

toLowerCase(s) == [i \in DOMAIN s |-> Lower(s[i])]

RECURSIVE DropCrLfNul(_)
\* .replace(/\r\n/g, "\n").replace(/\u0000/g, "")
DropCrLfNul(s) ==
    IF s = <<>> THEN <<>>
    ELSE IF Len(s) >= 2 /\ s[1] = "\r" /\ s[2] = "\n" THEN DropCrLfNul(Tail(s))
    ELSE IF s[1] = "NUL" THEN DropCrLfNul(Tail(s))
    ELSE <<s[1]>> \o DropCrLfNul(Tail(s))

RECURSIVE TrimLeft(_)
TrimLeft(s) ==
    IF s # <<>> /\ s[1] \in Whitespace THEN TrimLeft(Tail(s)) ELSE s

RECURSIVE TrimRight(_)
TrimRight(s) ==
    IF s # <<>> /\ s[Len(s)] \in Whitespace
    THEN TrimRight(SubSeq(s, 1, Len(s) - 1)) ELSE s

RECURSIVE Join(_, _)
\* Array.prototype.join on an array of strings
Join(parts, sep) ==
    IF parts = <<>> THEN <<>>
    ELSE IF Len(parts) = 1 THEN parts[1]
    ELSE parts[1] \o sep \o Join(Tail(parts), sep)

\* String.prototype.trim
trim(s) == TrimRight(TrimLeft(s))

----------------------------------------------------------------------------
(* Response bodies: null, a string, or a JSON object with the fields      *)
(* answer, error, text, output_text and content (an empty field is an     *)
(* absent one); content is an array of blocks with a type and a text      *)

NullBody == [t |-> "null", s |-> <<>>, answer |-> <<>>, error |-> <<>>,
             text |-> <<>>, output_text |-> <<>>, content |-> <<>>]
StrBody(x) == [NullBody EXCEPT !.t = "str", !.s = x]
ObjBody(a, e) == [NullBody EXCEPT !.t = "obj", !.answer = a, !.error = e]

\* the response of the provider: content blocks, or a flat text field
ProviderBody(c, tx, ot) ==
    [NullBody EXCEPT !.t = "obj", !.content = c, !.text = tx, !.output_text = ot]

Block(type, text) == [type |-> type, text |-> text]

RECURSIVE JsonBlocks(_)
\* JSON.stringify of the elements of an array of blocks
JsonBlocks(bs) ==
    IF bs = <<>> THEN <<>>
    ELSE <<"{\"type\": ", bs[1].type>>
         \o (IF bs[1].text = <<>> THEN <<>> ELSE <<"\"text\": ">> \o bs[1].text)
         \o <<"}">> \o JsonBlocks(Tail(bs))

\* JSON.stringify of a value that is an array of blocks
JsonArray(bs) == <<"[">> \o JsonBlocks(bs) \o <<"]">>

safeString(v) ==
    CASE v.t = "null" -> <<>>
      [] v.t = "str" -> v.s
      [] OTHER -> <<"{">>
                  \o (IF v.answer = <<>> THEN <<>> ELSE <<"\"answer\": ">> \o v.answer)
                  \o (IF v.error = <<>> THEN <<>> ELSE <<"\"error\": ">> \o v.error)
                  \o (IF v.text = <<>> THEN <<>> ELSE <<"\"text\": ">> \o v.text)
                  \o (IF v.output_text = <<>> THEN <<>>
                      ELSE <<"\"output_text\": ">> \o v.output_text)
                  \o (IF v.content = <<>> THEN <<>>
                      ELSE <<"\"content\": ">> \o JsonArray(v.content))
                  \o <<"}">>

\* normalizeWs without the final trim
normalizeWsNoTrim(s) == DropCrLfNul(s)

\* normalizeWs applied to a string; callers pass safeString(v) for a body
normalizeWs(s) == trim(DropCrLfNul(s))

----------------------------------------------------------------------------
(* Errors and results *)

NoError == [name |-> "none", status |-> 0, body |-> NullBody, path |-> "",
            message |-> <<>>]

NoResult == [ok |-> FALSE, status |-> 0, path |-> "", body |-> NullBody]

NoResp == [type |-> "none", status |-> 0, body |-> NullBody, attempt |-> 0, pidx |-> 0,
           sawNoCredits |-> FALSE]

\* res.statusText as the backend sends it
statusText(status) ==
    CASE status = 400 -> <<"Bad Request">>
      [] status = 401 -> <<"Unauthorized">>
      [] status = 403 -> <<"Forbidden">>
      [] status = 404 -> <<"Not Found">>
      [] status = 429 -> <<"Too Many Requests">>
      [] OTHER -> <<"Internal Server Error">>

\* res.ok
ResOk(status) == status >= 200 /\ status <= 299

\* HttpError with the assignment error.path = p left out
HttpErrorNoPath(status, body, p) ==
    LET norm == normalizeWs(safeString(body))
        detailText == IF norm # <<>> THEN norm ELSE statusText(status)
    IN [name |-> "Error", status |-> status, body |-> body, path |-> "",
        message |-> <<"HTTP ", ToString(status), " on ", p, ": ">> \o detailText]

\* the Error postToAnyEndpoint builds from a non-2xx response
HttpError(status, body, p) ==
    LET norm == normalizeWs(safeString(body))
        detailText == IF norm # <<>> THEN norm ELSE statusText(status)
    IN [name |-> "Error", status |-> status, body |-> body, path |-> p,
        message |-> <<"HTTP ", ToString(status), " on ", p, ": ">> \o detailText]

\* the rejection of fetch when the timer of fetchWithTimeout aborts it
AbortErr == [name |-> "AbortError", status |-> 0, body |-> NullBody, path |-> "",
             message |-> <<"The user aborted a request.">>]

\* the rejection of fetch when no response is obtainable
NetworkErr == [name |-> "TypeError", status |-> 0, body |-> NullBody, path |-> "",
               message |-> <<"Failed to fetch">>]

\* the error the try block of postToAnyEndpoint throws for outcome o on path p
ErrorOf(o, p) ==
    CASE o.type = "http" -> HttpError(o.status, o.body, p)
      [] o.type = "abort" -> AbortErr
      [] OTHER -> NetworkErr

isAbort(error) ==
    error.name = "AbortError" \/ Includes(toLowerCase(error.message), "aborted")


----------------------------------------------------------------------------
(* postToAnyEndpoint and the retry loop of send() *)

\* StopsLoop with the 403 test left out
StopsLoopOnly401(e) == e.status = 401 \/ isAbort(e)

\* StopsLoop with the isAbort test left out
StopsLoopNoAbort(e) == e.status \in {401, 403}

\* the catch of postToAnyEndpoint rethrows e instead of trying the next path
StopsLoop(e) == e.status \in {401, 403} \/ isAbort(e)

\* the for loop of postToAnyEndpoint: the index of the path tried after i
NextPath(i) == i + 1

\* SendRetries with the 404 test left out and every 4xx retried like a 5xx
SendRetriesFrom400(e, a) ==
    /\ e.status # 401
    /\ \/ e.status = 429 /\ a < maxAttempts
       \/ e.status >= 400 /\ a < maxAttempts

\* SendRetries with the 429 branch left out
SendRetriesNo429(e, a) ==
    /\ e.status # 401
    /\ e.status # 404
    /\ e.status >= 500 /\ a < maxAttempts

\* SendRetries with a backoff branch added for the status 400
SendRetriesOn400(e, a) ==
    /\ e.status # 401
    /\ e.status # 404
    /\ \/ e.status = 429 /\ a < maxAttempts
       \/ e.status >= 500 /\ a < maxAttempts
       \/ e.status = 400 /\ a < maxAttempts

\* SendRetries with the tests attempt < maxAttempts left out
SendRetriesUnbounded(e, a) ==
    /\ e.status # 401
    /\ e.status # 404
    /\ \/ e.status = 429
       \/ e.status >= 500

\* the catch of the retry loop sleeps and runs another cycle
SendRetries(e, a) ==
    /\ e.status # 401
    /\ e.status # 404
    /\ \/ e.status = 429 /\ a < maxAttempts
       \/ e.status >= 500 /\ a < maxAttempts

\* the candidates message, result, output and data.* are absent from the
\* bodies of the model
pickAnswerFromBody(body) ==
    CASE body.t = "null" -> <<>>
      [] body.t = "str" -> body.s
      [] OTHER ->
            IF normalizeWs(body.answer) # <<>> THEN normalizeWs(body.answer)
            ELSE IF normalizeWs(body.text) # <<>> THEN normalizeWs(body.text)
            ELSE IF body.content # <<>> THEN normalizeWs(JsonArray(body.content))
            ELSE normalizeWs(safeString(body))

\* extractClaudeText of the single-endpoint client; safeText is the identity
\* on a string and turns an absent value into the empty string
extractClaudeText(payload) ==
    LET content == IF payload.t = "obj" THEN payload.content ELSE <<>>
        IsTextBlock(b) == b.type = "text" \/ b.text # <<>>
        picked == SelectSeq(content, IsTextBlock)
        texts == [i \in DOMAIN picked |-> picked[i].text]
        Truthy(x) == x # <<>>
        textBlocks == SelectSeq(texts, Truthy)
        flat == IF payload.t # "obj" THEN <<>>
                ELSE IF payload.text # <<>> THEN payload.text
                ELSE payload.output_text
    IN IF textBlocks # <<>> THEN trim(Join(textBlocks, <<"\n", "\n">>))
       ELSE trim(flat)

\* isNoCreditsError accepting the statuses 402 and 403 only
isNoCreditsErrorNo400(e) ==
    /\ Includes(toLowerCase(e.message \o <<"\n">> \o safeString(e.body)),
                "credit balance is too low")
    /\ e.status \in {402, 403}

isNoCreditsError(e) ==
    LET hay == toLowerCase(e.message \o <<"\n">> \o safeString(e.body))
        hit == \/ Includes(hay, "credit balance is too low")
               \/ Includes(hay, "plans & billing")
               \/ Includes(hay, "insufficient") /\ Includes(hay, "credit")
               \/ Includes(hay, "billing") /\ Includes(hay, "upgrade")
               \/ Includes(hay, "purchase credits")
    IN hit /\ e.status \in {400, 402, 403}

asHumanError(e) ==
    IF e.message = <<>> THEN <<"Something went wrong.">> ELSE e.message

\* the kind the outer catch of send() gives the assistant turn
FailureKind(e) ==
    CASE e.status = 401 -> "error401"
      [] e.status = 404 -> "error404"
      [] isNoCreditsError(e) -> "errorNoCredits"
      [] OTHER -> "error"

\* the first line of the generic error text
Friendly(e) ==
    CASE e.status = 429 -> <<"Rate limit hit (429). Please try again in a moment.">>
      [] e.status = 413 -> <<"Request too large (413). Shorten the question or reduce selected docs.">>
      [] isAbort(e) -> <<"Timed out. Server took too long. Try again.">>
      [] e.status # 0 -> <<"Server error (HTTP ", ToString(e.status), ").">>
      [] OTHER -> <<"Network error. Check server / internet.">>

\* the text the outer catch of send() gives the assistant turn
FailureText(e) ==
    CASE e.status = 401 ->
            normalizeWs(IF e.message # <<>> THEN e.message ELSE <<"Unauthorized (401).">>)
      [] e.status = 404 -> <<"build404Message: ", e.path>>
      [] isNoCreditsError(e) -> <<"buildNoCreditsMessage">>
      [] OTHER -> Friendly(e) \o <<"\n", "\n", "Details:", "\n">>
                  \o normalizeWs(IF e.message # <<>> THEN e.message ELSE asHumanError(e))

\* the banner the outer catch of send() sets; the 401 branch sets none
FailureBanner(e, old) ==
    CASE e.status = 401 -> old
      [] e.status = 404 -> "We handled an error safely"
      [] isNoCreditsError(e) -> "Claude credits empty"
      [] OTHER -> "We handled an error safely"

----------------------------------------------------------------------------
(* The transcript *)

Turn(id, role, kind, text, thinking) ==
    [id |-> id, role |-> role, kind |-> kind, text |-> text, thinkingText |-> thinking]

\* the index replaceLastAssistant writes: the last assistant turn, 0 when none
LastAssistant(msgs) ==
    LET A == {i \in DOMAIN msgs : msgs[i].role = "assistant"}
    IN IF A = {} THEN 0 ELSE CHOOSE i \in A : \A j \in A : j <= i

\* replaceLastAssistant scanning from the front: the first assistant turn
replaceFirstAssistant(msgs, kind, text) ==
    LET A == {i \in DOMAIN msgs : msgs[i].role = "assistant"}
        i == IF A = {} THEN 0 ELSE CHOOSE k \in A : \A j \in A : k <= j
    IN IF i = 0 THEN msgs
       ELSE [msgs EXCEPT ![i] = [@ EXCEPT !.kind = kind, !.text = text]]

\* { ...copy[i], ...replacement } on the last assistant turn
replaceLastAssistant(msgs, kind, text) ==
    LET i == LastAssistant(msgs)
    IN IF i = 0 THEN msgs
       ELSE [msgs EXCEPT ![i] = [@ EXCEPT !.kind = kind, !.text = text]]

\* the guard of send() deleted
SendNeverReturnsEarly(q, sending) == FALSE

\* the guard of send() also returning while the backend is known unhealthy
\* or a selected file is known missing
SendReturnsEarlyUnchecked(q, sending) ==
    \/ q = <<>>
    \/ sending
    \/ healthOk = "false"
    \/ \E k \in DocKeys : docs[k] /\ ~docAvail[k]

\* the guard of send(): if (!question || isSending) return
SendReturnsEarly(q, sending) == q = <<>> \/ sending

\* enabledCount counting the keys of docs, selected or not
enabledCountAll(d) == Cardinality(DOMAIN d)

\* enabledCount counting the selected documents whose file was found
enabledCountAvailable(d) == Cardinality({k \in DocKeys : d[k] /\ docAvail[k]})

enabledCount(d) == Cardinality({k \in DocKeys : d[k]})

\* thinkingText ignoring the mode
thinkingTextFixed(m) == <<"Thinking in cloud mode">>

thinkingText(m) ==
    IF m = "cloud" THEN <<"Thinking in cloud mode">> ELSE <<"Thinking locally">>

IntroText == <<"Hi! Ask me what to do in a guest situation">>


----------------------------------------------------------------------------
(* What the user types and what the network answers *)

Inputs == { <<>>,
            <<" ", "\n">>,
            <<" ", "late", "\r", "\n", "checkout", "NUL", " ">> }

Http(status, body) == [type |-> "http", status |-> status, body |-> body]
Aborted == [type |-> "abort", status |-> 0, body |-> NullBody]
Unreachable == [type |-> "neterr", status |-> 0, body |-> NullBody]

AnswerBody == ObjBody(<<" ", "Do X", "\n">>, <<>>)
EmptyBody == StrBody(<<>>)
CreditBody == ObjBody(<<>>, <<"Your ", "credit balance is too low">>)
AbortedTextBody == StrBody(<<"Request Aborted">>)

PaddedBody == StrBody(<<"Step 1", "\n">>)
BlankBody == StrBody(<<" ", "\n">>)
ContentBody ==
    ProviderBody(<<Block("text", <<"Step 1">>), Block("tool_use", <<>>),
                   Block("text", <<"Step 2", "\n">>)>>, <<>>, <<>>)
OutputTextBody == ProviderBody(<<>>, <<>>, <<" ", "Flat answer">>)
UnrecognizedBody == ObjBody(<<>>, <<"nothing to report">>)

OkBodies == {AnswerBody, StrBody(<<"Step 1">>), NullBody, PaddedBody, BlankBody,
             ContentBody, OutputTextBody, UnrecognizedBody}
ErrBodies == {EmptyBody, CreditBody, AbortedTextBody}
ErrStatuses == {400, 401, 403, 404, 429, 500}

\* every outcome of one POST
Outcomes ==
    {Http(200, b) : b \in OkBodies}
    \cup {Http(st, b) : st \in ErrStatuses, b \in ErrBodies}
    \cup {Aborted, Unreachable}

\* the outcomes of the runs with several submissions
ConvOutcomes ==
    {Http(200, AnswerBody), Http(404, EmptyBody), Http(500, EmptyBody),
     Http(400, CreditBody), Aborted}

\* the document selections the preference store may hold at startup
StoredDocs == {DEFAULT_DOCS, [k \in DocKeys |-> k = "matrix"]}

----------------------------------------------------------------------------
(* The worksheets and the document constants of the matrix client *)

\* a worksheet as sheet_to_json(header: 1) returns it: rows of cells, a cell
\* being a string; a sheet the workbook lacks is not present
Sheet(rows) == [present |-> TRUE, rows |-> rows]
NoSheet == [present |-> FALSE, rows |-> <<>>]

ExampleRow == <<<<>>, <<"Refund">>, <<"Process refund">>, <<"#slack-x">>,
                <<>>, <<>>, <<>>, <<>>>>
FullRow == <<<<>>, <<" ", "Cancel">>, <<"Cancel the booking", "ZWSP">>,
             <<"#cancel">>, <<"RQ-1">>, <<"Open ticket">>, <<"Ask lead">>,
             <<"VIP desk">>>>
SparseRow == <<<<>>, <<"Noise">>, <<"Move the guest">>, <<" ">>, <<>>,
               <<"Open ticket">>, <<"ZWSP">>, <<"VIP desk">>>>
HeaderRow == <<<<>>, <<"Refunds">>, <<"Instructions">>, <<"Slack">>>>
ShoutedHeaderRow == <<<<>>, <<"Cancellations">>, <<" ", "INSTRUCTIONS">>>>
IssueOnlyRow == <<<<>>, <<"Orphan">>>>
BlankRow == <<>>

MatrixRows == {ExampleRow, FullRow, SparseRow, HeaderRow, ShoutedHeaderRow,
               IssueOnlyRow, BlankRow}

\* the grids of at most MaxRows rows
Grids == UNION {[1..n -> MatrixRows] : n \in 0..MaxRows}

TicketGrid == <<HeaderRow, ExampleRow>>

NotesGrid == <<<<<<>>, <<"Check-in">>, <<"After 3pm">>, <<>>>>,
               <<<<>>, <<"Pets">>, <<>>, <<"Ask the hotel">>>>,
               <<<<>>, <<"Orphan">>>>,
               <<<<>>, <<>>, <<"No title">>>>>>

\* rows of the sheet "Items to note"
NoteBoth == <<<<>>, <<"Late arrival">>, <<"Call the hotel", "ZWSP">>,
              <<" ", "Note it in the booking">>>>
NoteCol2 == <<<<>>, <<"Check-in">>, <<"After 3pm">>, <<>>>>
NoteCol3 == <<<<>>, <<"Pets">>, <<" ">>, <<"Ask the hotel">>>>
NoteTitleOnly == <<<<>>, <<"Orphan">>, <<>>, <<"ZWSP">>>>
NoteNoTitle == <<<<>>, <<" ">>, <<"No title">>, <<"Still no title">>>>
NoteRows == {NoteBoth, NoteCol2, NoteCol3, NoteTitleOnly, NoteNoTitle, BlankRow}

NoteGrids == UNION {[1..n -> NoteRows] : n \in 0..MaxRows}

\* workbooks whose third sheet varies
NoteWorkbooks ==
    {[voice |-> Sheet(TicketGrid), ticket |-> NoSheet, notes |-> Sheet(g)] :
        g \in NoteGrids}

Workbooks ==
    {[voice |-> v, ticket |-> Sheet(TicketGrid), notes |-> n] :
        v \in {Sheet(g) : g \in Grids} \cup {NoSheet},
        n \in {Sheet(NotesGrid), NoSheet}}

\* the document constants: the placeholders of the source, and documents
\* pasted in their place
PlaceholderCorpora ==
    [hotelPlanner |-> <<"HOTELPLANNER CORE DOCUMENTS (PASTE HERE TOMORROW)">>,
     training |-> <<"TRAINING GUIDE DOCUMENTS (PASTE HERE TOMORROW)">>,
     qaVoice |-> <<"QUALITY ASSURANCE VOICE DOCUMENTS (PASTE HERE TOMORROW)">>,
     qaGroup |-> <<"QUALITY ASSURANCE GROUP REQUEST DOCUMENTS (PASTE HERE TOMORROW)">>]

PastedCorpora ==
    [hotelPlanner |-> <<"\n", "Core policy", "\n", "\n", "Escalation list", " ">>,
     training |-> <<" ", "\n">>,
     qaVoice |-> <<>>,
     qaGroup |-> <<"QA group checklist", "\n">>]

BlankCorpora ==
    [hotelPlanner |-> <<" ", "\n">>,
     training |-> <<"Training guide">>,
     qaVoice |-> <<" ">>,
     qaGroup |-> <<>>]

Corpora == {PlaceholderCorpora, PastedCorpora, BlankCorpora}

----------------------------------------------------------------------------
(* The tabular extractor and the knowledge assembler of the matrix client *)

ZeroWidth == {"ZWSP", "ZWNJ", "ZWJ", "BOM"}

\* .replace(/\u200b|\u200c|\u200d|\ufeff/g, "")
DropZeroWidth(s) ==
    LET Visible(tok) == tok \notin ZeroWidth
    IN SelectSeq(s, Visible)

\* safeText is the identity on a string
normalizeCell(v) == trim(DropZeroWidth(v))

\* row[j], the empty string when the row has no element j
CellAt(row, j) == IF j + 1 <= Len(row) THEN row[j + 1] ELSE <<>>

\* the cells 1 to 7 of a row, normalized
Cells(row) == [j \in 1..7 |-> normalizeCell(CellAt(row, j))]

OptionalLabels == <<"  Slack: ", "  Refund Queue: ", "  Create a Ticket: ",
                    "  Supervisor: ", "  VIPRES: ">>

\* RecordParts pushing every optional line, whatever its cell holds
RecordPartsAllLines(c) ==
    <<<<"- Issue: ">> \o c[1], <<"  Instructions: ">> \o c[2]>>
    \o [k \in 1..5 |-> <<OptionalLabels[k]>> \o c[k + 2]]

\* the array parts of a record row, c being its normalized cells
RecordParts(c) ==
    LET optional == [k \in 1..5 |-> <<OptionalLabels[k]>> \o c[k + 2]]
        Pushed(line) == Len(line) > 1
    IN <<<<"- Issue: ">> \o c[1], <<"  Instructions: ">> \o c[2]>>
       \o SelectSeq(optional, Pushed)

RECURSIVE ScanMatrix(_, _, _, _)
\* the for loop of sheetToMatrixText from row r on: the array out at its end
ScanMatrix(rows, r, currentCategory, out) ==
    IF r > Len(rows) THEN out
    ELSE LET c == Cells(rows[r])
         IN IF c[1] # <<>> /\ toLowerCase(c[2]) = <<"instructions">>
            THEN ScanMatrix(rows, r + 1, c[1],
                            out \o <<<<>>, <<"# ">> \o c[1], <<>>>>)
            ELSE IF c[1] = <<>> \/ c[2] = <<>>
            THEN ScanMatrix(rows, r + 1, currentCategory, out)
            ELSE ScanMatrix(rows, r + 1,
                            IF currentCategory = <<>> THEN <<"General">>
                            ELSE currentCategory,
                            out \o <<Join(RecordParts(c), <<"\n">>), <<>>>>)

\* sheetToMatrixText with the array out declared outside the function: the
\* heading pushed by the run before the reload is still in it
sheetToMatrixTextSharedOut(rows, sheetLabel) ==
    trim(Join(ScanMatrix(rows, 1, <<>>,
                         (IF prevRun.set THEN <<<<"=== ", sheetLabel, " ===">>>>
                          ELSE <<>>)
                         \o <<<<"=== ", sheetLabel, " ===">>>>),
              <<"\n">>))

sheetToMatrixText(rows, sheetLabel) ==
    trim(Join(ScanMatrix(rows, 1, <<>>, <<<<"=== ", sheetLabel, " ===">>>>),
              <<"\n">>))

RECURSIVE ScanNotesBothColumns(_, _, _)
\* ScanNotes skipping a row unless columns 2 and 3 are both filled
ScanNotesBothColumns(rows, r, out) ==
    IF r > Len(rows) THEN out
    ELSE LET title == normalizeCell(CellAt(rows[r], 1))
             col2 == normalizeCell(CellAt(rows[r], 2))
             col3 == normalizeCell(CellAt(rows[r], 3))
         IN IF title = <<>> \/ col2 = <<>> \/ col3 = <<>>
            THEN ScanNotesBothColumns(rows, r + 1, out)
            ELSE ScanNotesBothColumns(rows, r + 1,
                           out \o <<<<"- ">> \o title>>
                               \o <<<<"  ">> \o col2>>
                               \o <<<<"  ">> \o col3>>
                               \o <<<<>>>>)

RECURSIVE ScanNotes(_, _, _)
\* the for loop of sheetToNotesText from row r on
ScanNotes(rows, r, out) ==
    IF r > Len(rows) THEN out
    ELSE LET title == normalizeCell(CellAt(rows[r], 1))
             col2 == normalizeCell(CellAt(rows[r], 2))
             col3 == normalizeCell(CellAt(rows[r], 3))
         IN IF title = <<>> \/ (col2 = <<>> /\ col3 = <<>>)
            THEN ScanNotes(rows, r + 1, out)
            ELSE ScanNotes(rows, r + 1,
                           out \o <<<<"- ">> \o title>>
                               \o (IF col2 # <<>> THEN <<<<"  ">> \o col2>> ELSE <<>>)
                               \o (IF col3 # <<>> THEN <<<<"  ">> \o col3>> ELSE <<>>)
                               \o <<<<>>>>)

sheetToNotesText(rows, sheetLabel) ==
    trim(Join(ScanNotes(rows, 1, <<<<"=== ", sheetLabel, " ===">>, <<>>>>),
              <<"\n">>))

activeMatrixText ==
    IF matrixMode = "voice" THEN matrixVoiceText ELSE matrixTicketText

activeDocsText ==
    CASE docMode = "training" -> corpora.training
      [] docMode = "qaVoice" -> corpora.qaVoice
      [] docMode = "qaGroup" -> corpora.qaGroup
      [] OTHER -> activeMatrixText

\* combinedKnowledge without .filter(Boolean)
combinedKnowledgeNoFilter ==
    Join(<<trim(corpora.hotelPlanner), trim(activeDocsText),
           trim(matrixNotesText)>>, <<"\n", "\n">>)

\* the useMemo value of the current render
combinedKnowledge ==
    LET Truthy(x) == x # <<>>
    IN Join(SelectSeq(<<trim(corpora.hotelPlanner), trim(activeDocsText),
                        trim(matrixNotesText)>>, Truthy), <<"\n", "\n">>)

NoRequest == [system |-> <<>>, question |-> <<>>]

NoRun == [set |-> FALSE, matrixMode |-> "voice", docMode |-> "matrix",
          knowledge |-> <<>>]

\* the matrix client before a question is typed
NoAsk ==
    /\ question = <<>>
    /\ lastQuestion = <<>>
    /\ answer = <<>>
    /\ isLoading = FALSE
    /\ errorMsg = <<>>
    /\ isBillingError = FALSE
    /\ request = NoRequest

\* the dispatcher client loads no matrix
NoMatrix ==
    /\ workbook = [voice |-> NoSheet, ticket |-> NoSheet, notes |-> NoSheet]
    /\ corpora = PlaceholderCorpora
    /\ matrixVoiceText = <<>>
    /\ matrixTicketText = <<>>
    /\ matrixNotesText = <<>>
    /\ matrixLoadError = FALSE
    /\ matrixMode = "voice"
    /\ docMode = "matrix"
    /\ kpc = "none"
    /\ NoAsk
    /\ prevRun = NoRun

----------------------------------------------------------------------------
(* The preference store read at startup *)

\* an entry of localStorage: absent, text JSON.parse rejects, or the JSON
\* text of value
NoEntry(value) == [raw |-> "null", value |-> value]
CorruptEntry(value) == [raw |-> "corrupt", value |-> value]
JsonEntry(value) == [raw |-> "json", value |-> value]

\* tryLoadLocal(key, fallback) for the entry stored under key
tryLoadLocal(entry, fallback) ==
    IF entry.raw = "null" THEN fallback
    ELSE IF entry.raw = "corrupt" THEN fallback
    ELSE entry.value

\* the entries trySaveLocal writes: the modes and the selections of the app
SavedModes == {NoEntry("cloud"), JsonEntry("cloud"), JsonEntry("local")}
SavedDocs == {NoEntry(DEFAULT_DOCS)} \cup {JsonEntry(d) : d \in StoredDocs}

\* the entries another writer may leave under the key cc_mode
ForeignModes == {CorruptEntry("cloud"), JsonEntry("banana"), JsonEntry("null")}

\* the useState initialisers of mode and docs
InitPrefs(modeEntries, docsEntries) ==
    /\ mode \in {tryLoadLocal(e, "cloud") : e \in modeEntries}
    /\ docs \in {tryLoadLocal(e, DEFAULT_DOCS) : e \in docsEntries}

----------------------------------------------------------------------------
(* Initial states *)

\* how a HEAD request or a request to /health ends
ProbeOutcomes == {"ok", "non2xx", "timeout", "neterr"}

\* every file is found and the backend is healthy
AllFound == [heads |-> [k \in DocKeys |-> "ok"], health |-> "ok"]

\* the availability check has run and found every file
\* the endpoint after app.listen: no request received yet
NoUpstream == [type |-> "none", status |-> 0, parts |-> 0]
NoReply == [status |-> 0, kind |-> "none"]
Listening == [pc |-> "idle", handler |-> "none", hasKey |-> FALSE,
              req |-> [question |-> "missing", text |-> "missing",
                       system |-> "missing"],
              upstream |-> NoUpstream, reply |-> NoReply]

NoProbes ==
    /\ availPc = "done"
    /\ probeNet = AllFound

InitApp ==
    /\ messages = <<Turn(1, "assistant", "normal", IntroText, <<>>)>>
    /\ isSending = FALSE
    /\ docAvail = [k \in DocKeys |-> TRUE]
    /\ banner = "none"
    /\ healthOk = "null"
    /\ pc = "idle"
    /\ attempt = 0
    /\ pidx = 0
    /\ lastErr = NoError
    /\ last = NoResult
    /\ caught = NoError
    /\ lastResp = NoResp
    /\ cycle1Err = NoError
    /\ posts = 0
    /\ backoffs = 0
    /\ inflight = 0
    /\ ev = "other"
    /\ nextId = 2
    /\ togglesLeft = MaxToggles
    /\ server = Listening

\* several submissions, a small set of outcomes
Init ==
    /\ InitApp
    /\ NoProbes
    /\ InitPrefs(SavedModes, SavedDocs)
    /\ input = <<>>
    /\ acceptsLeft = MaxAccepted
    /\ net = ConvOutcomes
    /\ NoMatrix

\* one submission, the preference store holding any entry
InitStartup ==
    /\ InitApp
    /\ NoProbes
    /\ InitPrefs(SavedModes \cup ForeignModes,
                 SavedDocs \cup {CorruptEntry(DEFAULT_DOCS)})
    /\ input = <<>>
    /\ acceptsLeft = 1
    /\ net = ConvOutcomes
    /\ NoMatrix

\* one submission of a question already typed, every outcome
InitDispatch ==
    /\ InitApp
    /\ NoProbes
    /\ InitPrefs(SavedModes, SavedDocs)
    /\ input \in {text \in Inputs : normalizeWs(text) # <<>>}
    /\ acceptsLeft = 1
    /\ net = Outcomes
    /\ NoMatrix

----------------------------------------------------------------------------
(* User events *)

dispatchVars == <<pc, attempt, pidx, lastErr, last, caught, lastResp, cycle1Err,
                  posts, backoffs, inflight>>
fixedVars == <<mode, docAvail, net, knowledgeVars, availPc, probeNet, server>>

\* onChange of the textarea, which is disabled while isSending
Type ==
    /\ ~isSending
    /\ \E text \in Inputs : input' = text
    /\ input' # input
    /\ ev' = "other"
    /\ UNCHANGED <<messages, isSending, docs, banner, healthOk, nextId,
                   acceptsLeft, togglesLeft, dispatchVars, fixedVars>>

\* the Clear button, disabled while isSending or when input.trim() is empty
clearInput ==
    /\ ~isSending
    /\ trim(input) # <<>>
    /\ input' = <<>>
    /\ ev' = "other"
    /\ UNCHANGED <<messages, isSending, docs, banner, healthOk, nextId,
                   acceptsLeft, togglesLeft, dispatchVars, fixedVars>>

\* onClick of a document chip
ClickChip ==
    /\ togglesLeft > 0
    /\ \E k \in DocKeys :
         IF ~docAvail[k]
         THEN /\ banner' = "Missing public file"
              /\ docs' = docs
         ELSE /\ docs' = [docs EXCEPT ![k] = ~docs[k]]
              /\ banner' = banner
    /\ togglesLeft' = togglesLeft - 1
    /\ ev' = "other"
    /\ UNCHANGED <<messages, input, isSending, healthOk, nextId,
                   acceptsLeft, dispatchVars, fixedVars>>

----------------------------------------------------------------------------
(* send(), up to its first await *)

\* send() returns at its first guard
SendIgnored ==
    /\ SendReturnsEarly(normalizeWs(input), isSending)
    /\ ev' = "send"
    /\ UNCHANGED <<messages, input, isSending, docs, banner, healthOk, nextId,
                   acceptsLeft, togglesLeft, dispatchVars, fixedVars>>

\* send() returns because no document is selected
SendNoDocs ==
    /\ ~SendReturnsEarly(normalizeWs(input), isSending)
    /\ enabledCount(docs) = 0
    /\ banner' = "No docs selected"
    /\ ev' = "send"
    /\ UNCHANGED <<messages, input, isSending, docs, healthOk, nextId,
                   acceptsLeft, togglesLeft, dispatchVars, fixedVars>>

\* send() accepts the submission and issues the first POST
SendAccepted ==
    /\ acceptsLeft > 0
    /\ ~SendReturnsEarly(normalizeWs(input), isSending)
    /\ enabledCount(docs) # 0
    /\ banner' = "none"
    /\ isSending' = TRUE
    /\ messages' = messages
            \o <<Turn(nextId, "user", "normal", normalizeWs(input), <<>>),
                 Turn(nextId + 1, "assistant", "loading", <<>>, thinkingText(mode))>>
    /\ nextId' = nextId + 2
    /\ input' = <<>>
    /\ pc' = "fetch"
    /\ attempt' = 1
    /\ pidx' = 1
    /\ lastErr' = NoError
    /\ last' = NoResult
    /\ caught' = NoError
    /\ lastResp' = NoResp
    /\ cycle1Err' = NoError
    /\ posts' = 1
    /\ backoffs' = 0
    /\ inflight' = inflight + 1
    /\ acceptsLeft' = acceptsLeft - 1
    /\ ev' = "send"
    /\ UNCHANGED <<docs, healthOk, togglesLeft, fixedVars>>


----------------------------------------------------------------------------
(* The continuations of send(): a fetch settles, the backoff timer fires *)

Resp(o) == [type |-> o.type, status |-> o.status, body |-> o.body,
            attempt |-> attempt, pidx |-> pidx,
            sawNoCredits |-> \/ lastResp.sawNoCredits
                             \/ /\ ~(o.type = "http" /\ ResOk(o.status))
                                /\ isNoCreditsError(ErrorOf(o, endpoints[pidx]))]

\* Thrown when the catch of postToAnyEndpoint rethrows every error
ThrownAtOnce(e) == TRUE

\* postToAnyEndpoint leaves its loop with error e thrown to send()
Thrown(e) == StopsLoop(e) \/ NextPath(pidx) > Len(endpoints)

\* the fallback of send() left empty
FallbackTextEmpty == <<>>

FallbackText == <<"No answer returned from server.">>

\* postToAnyEndpoint awaits fetchWithTimeout or the body of its response
AwaitsResponse == pc \in {"fetch", "body"}

\* the timer of fetchWithTimeout is set: it is cleared in the finally that
\* runs when fetch settles, before the body is read
TimerSet == pc = "fetch"

\* outcome o can end the await: the fetch is aborted or rejected before it
\* settles only; the reading of the body is not bound to the timer
Settles(o) == o.type \in {"abort", "neterr"} => TimerSet

\* fetch resolves with the status line and the headers: fetchWithTimeout
\* clears its timer and returns, res.json() or res.text() is awaited
HeadersArrived ==
    /\ pc = "fetch"
    /\ pc' = "body"
    /\ ev' = "other"
    /\ UNCHANGED <<messages, input, isSending, docs, banner, healthOk, nextId,
                   acceptsLeft, togglesLeft, attempt, pidx, lastErr, last,
                   caught, lastResp, cycle1Err, posts, backoffs, inflight,
                   fixedVars>>

\* a 2xx response: postToAnyEndpoint returns, send() resolves the turn
FetchOk ==
    /\ AwaitsResponse
    /\ \E o \in net :
         /\ o.type = "http" /\ ResOk(o.status)
         /\ LET result == [ok |-> TRUE, status |-> o.status,
                           path |-> endpoints[pidx], body |-> o.body]
                answerText == pickAnswerFromBody(result.body)
                finalText == IF normalizeWs(answerText) # <<>>
                             THEN normalizeWs(answerText) ELSE FallbackText
            IN /\ last' = result
               /\ messages' = replaceLastAssistant(messages, "normal", finalText)
         /\ lastResp' = Resp(o)
    /\ healthOk' = "true"
    /\ isSending' = FALSE
    /\ pc' = "idle"
    /\ inflight' = inflight - 1
    /\ ev' = "other"
    /\ UNCHANGED <<input, docs, banner, nextId, acceptsLeft, togglesLeft,
                   attempt, pidx, lastErr, caught, cycle1Err, posts, backoffs,
                   fixedVars>>

\* a failure postToAnyEndpoint swallows: the next path is POSTed
FetchErrNext ==
    /\ AwaitsResponse
    /\ \E o \in net :
         /\ ~(o.type = "http" /\ ResOk(o.status))
         /\ Settles(o)
         /\ LET e == ErrorOf(o, endpoints[pidx])
            IN /\ ~Thrown(e)
               /\ lastErr' = e
         /\ lastResp' = Resp(o)
    /\ pidx' = NextPath(pidx)
    /\ posts' = posts + 1
    /\ pc' = "fetch"
    /\ ev' = "other"
    /\ UNCHANGED <<messages, input, isSending, docs, banner, healthOk, nextId,
                   acceptsLeft, togglesLeft, attempt, last, caught,
                   cycle1Err, backoffs, inflight, fixedVars>>

\* a failure postToAnyEndpoint throws and send() answers with a backoff
FetchErrRetry ==
    /\ AwaitsResponse
    /\ \E o \in net :
         /\ ~(o.type = "http" /\ ResOk(o.status))
         /\ Settles(o)
         /\ LET e == ErrorOf(o, endpoints[pidx])
            IN /\ Thrown(e)
               /\ SendRetries(e, attempt)
               /\ lastErr' = e
               /\ cycle1Err' = e
         /\ lastResp' = Resp(o)
    /\ pc' = "sleep"
    /\ backoffs' = backoffs + 1
    /\ inflight' = inflight - 1
    /\ ev' = "other"
    /\ UNCHANGED <<messages, input, isSending, docs, banner, healthOk, nextId,
                   acceptsLeft, togglesLeft, attempt, pidx, last, caught,
                   posts, fixedVars>>

\* a failure postToAnyEndpoint throws and send() gives up: the outer catch
FetchErrFail ==
    /\ AwaitsResponse
    /\ \E o \in net :
         /\ ~(o.type = "http" /\ ResOk(o.status))
         /\ Settles(o)
         /\ LET e == ErrorOf(o, endpoints[pidx])
            IN /\ Thrown(e)
               /\ ~SendRetries(e, attempt)
               /\ lastErr' = e
               /\ caught' = e
               /\ messages' = replaceLastAssistant(messages, FailureKind(e),
                                                   FailureText(e))
               /\ banner' = FailureBanner(e, banner)
         /\ lastResp' = Resp(o)
    /\ healthOk' = "false"
    /\ isSending' = FALSE
    /\ pc' = "idle"
    /\ inflight' = inflight - 1
    /\ ev' = "other"
    /\ UNCHANGED <<input, docs, nextId, acceptsLeft, togglesLeft, attempt, pidx,
                   last, cycle1Err, posts, backoffs, fixedVars>>

\* the backoff timer fires: the next cycle POSTs the first path again
SleepDone ==
    /\ pc = "sleep"
    /\ pc' = "fetch"
    /\ attempt' = attempt + 1
    /\ pidx' = 1
    /\ lastErr' = NoError
    /\ posts' = posts + 1
    /\ inflight' = inflight + 1
    /\ ev' = "other"
    /\ UNCHANGED <<messages, input, isSending, docs, banner, healthOk, nextId,
                   acceptsLeft, togglesLeft, last, caught, lastResp, cycle1Err,
                   backoffs, fixedVars>>

Next ==
    \/ Type
    \/ clearInput
    \/ ClickChip
    \/ SendIgnored
    \/ SendNoDocs
    \/ SendAccepted
    \/ FetchOk
    \/ FetchErrNext
    \/ FetchErrRetry
    \/ FetchErrFail
    \/ SleepDone

Spec == Init /\ [][Next]_vars

SpecStartup == InitStartup /\ [][Next]_vars

\* the steps of one dispatch: the submission and the continuations of send()
NextDispatch ==
    \/ SendAccepted
    \/ FetchOk
    \/ FetchErrNext
    \/ FetchErrRetry
    \/ FetchErrFail
    \/ SleepDone

SpecDispatch == InitDispatch /\ [][NextDispatch]_vars

\* two submissions typed one after the other
InitLive ==
    /\ InitApp
    /\ NoProbes
    /\ InitPrefs({NoEntry("cloud")}, {NoEntry(DEFAULT_DOCS)})
    /\ input = <<>>
    /\ acceptsLeft = 2
    /\ net = {Http(200, AnswerBody), Http(500, EmptyBody), Http(404, EmptyBody),
              Aborted, Unreachable}
    /\ NoMatrix

\* a pending POST is settled: by a response, a failure or the abort
Settled ==
    \/ FetchOk
    \/ FetchErrNext
    \/ FetchErrRetry
    \/ FetchErrFail

NextLive ==
    \/ Type
    \/ SendAccepted
    \/ HeadersArrived
    \/ FetchOk
    \/ FetchErrNext
    \/ FetchErrRetry
    \/ FetchErrFail
    \/ SleepDone

\* every pending POST is settled in the end and the timer of sleep() fires
SpecLive ==
    /\ InitLive
    /\ [][NextLive]_vars
    /\ WF_vars(Settled)
    /\ WF_vars(SleepDone)

\* one dispatch, the arrival of the headers a step of its own
NextAttempt ==
    \/ SendAccepted
    \/ HeadersArrived
    \/ FetchOk
    \/ FetchErrNext
    \/ FetchErrRetry
    \/ FetchErrFail
    \/ SleepDone

SpecAttempt == InitDispatch /\ [][NextAttempt]_vars


----------------------------------------------------------------------------
(* The availability check of the documents and the health check *)

\* checkOne: res.ok, and false when fetchWithTimeout throws
checkOne(outcome) == outcome = "ok"

\* the files that may be missing, and one way a HEAD fails in each run
ProbeNets ==
    {[heads |-> [k \in DocKeys |-> IF k \in missing THEN how ELSE "ok"],
      health |-> h] :
        missing \in SUBSET {"matrix", "qaVoice"},
        how \in ProbeOutcomes \ {"ok"},
        h \in ProbeOutcomes}

\* the page after its first render: the checks are awaited, a question is
\* typed
InitProbes ==
    /\ InitApp
    /\ InitPrefs(SavedModes, {NoEntry(DEFAULT_DOCS)})
    /\ availPc = "check"
    /\ probeNet \in ProbeNets
    /\ input = <<" ", "late", "\r", "\n", "checkout", "NUL", " ">>
    /\ acceptsLeft = 1
    /\ net = {Http(200, AnswerBody), Http(500, EmptyBody)}
    /\ NoMatrix

\* the effect that checks the public files: every HEAD has settled
DocsChecked ==
    /\ availPc = "check"
    /\ LET next == [k \in DocKeys |-> checkOne(probeNet.heads[k])]
           missing == {k \in DocKeys : ~next[k]}
       IN /\ docAvail' = next
          /\ banner' = IF missing # {} THEN "Some public docs were not found"
                       ELSE banner
    /\ availPc' = "done"
    /\ ev' = "avail"
    /\ UNCHANGED <<messages, input, isSending, docs, healthOk, nextId,
                   acceptsLeft, togglesLeft, dispatchVars, mode, net,
                   knowledgeVars, probeNet, server>>

\* runHealthCheck, at startup and at every tick of its interval
runHealthCheck ==
    /\ healthOk' = IF probeNet.health = "ok" THEN "true" ELSE "false"
    /\ banner' = CASE probeNet.health = "ok" -> banner
                   [] probeNet.health = "non2xx" -> "Server health check failed"
                   [] OTHER -> "Server not reachable"
    /\ ev' = "health"
    /\ UNCHANGED <<messages, input, isSending, docs, docAvail, nextId,
                   acceptsLeft, togglesLeft, dispatchVars, mode, net,
                   knowledgeVars, availPc, probeNet, server>>

\* the page after its first render with a stored selection: some files
\* are missing, a question is typed, the backend answers
InitChips ==
    /\ InitApp
    /\ InitPrefs({NoEntry("cloud")}, SavedDocs)
    /\ availPc = "check"
    /\ probeNet \in {n \in ProbeNets : n.health = "ok" /\
                        \A k \in DocKeys : n.heads[k] \in {"ok", "non2xx"}}
    /\ input = <<" ", "late", "\r", "\n", "checkout", "NUL", " ">>
    /\ acceptsLeft = 1
    /\ net = {Http(200, AnswerBody)}
    /\ NoMatrix

NextChips ==
    \/ DocsChecked
    \/ ClickChip
    \/ SendNoDocs
    \/ SendAccepted
    \/ FetchOk

SpecChips == InitChips /\ [][NextChips]_vars

NextProbes ==
    \/ DocsChecked
    \/ runHealthCheck
    \/ ClickChip
    \/ SendAccepted
    \/ FetchOk
    \/ FetchErrNext
    \/ FetchErrRetry
    \/ FetchErrFail
    \/ SleepDone

SpecProbes == InitProbes /\ [][NextProbes]_vars

----------------------------------------------------------------------------
(* The matrix client: loadMatrix() and the knowledge source selectors.    *)
(* The labels activeSourceLabel and activeTabLabel are not modelled.       *)

appVars == <<messages, input, isSending, docs, docAvail, mode, banner, healthOk,
             dispatchVars, ev, nextId, acceptsLeft, togglesLeft, net, availPc,
             probeNet, server>>

DocModes == {"matrix", "training", "qaVoice", "qaGroup"}

\* the matrix client after its first render: loadMatrix() awaits its fetch
InitKnowledge ==
    /\ InitApp
    /\ NoProbes
    /\ docs = DEFAULT_DOCS
    /\ mode = "cloud"
    /\ input = <<>>
    /\ acceptsLeft = 0
    /\ net = {}
    /\ workbook \in Workbooks
    /\ corpora \in Corpora
    /\ matrixVoiceText = <<>>
    /\ matrixTicketText = <<>>
    /\ matrixNotesText = <<>>
    /\ matrixLoadError = FALSE
    /\ matrixMode = "voice"
    /\ docMode = "matrix"
    /\ kpc = "fetch"
    /\ NoAsk
    /\ prevRun = NoRun

\* the matrix file arrives and is read: the three texts are set
loadMatrix ==
    /\ kpc = "fetch"
    /\ matrixVoiceText' =
         IF workbook.voice.present
         THEN sheetToMatrixText(workbook.voice.rows, "VOICE MATRIX (Customer Service)")
         ELSE <<>>
    /\ matrixTicketText' =
         IF workbook.ticket.present
         THEN sheetToMatrixText(workbook.ticket.rows, "TICKET MATRIX (Tickets Agents)")
         ELSE <<>>
    /\ matrixNotesText' =
         IF workbook.notes.present
         THEN sheetToNotesText(workbook.notes.rows, "ITEMS TO NOTE")
         ELSE <<>>
    /\ kpc' = "done"
    /\ UNCHANGED <<workbook, corpora, matrixLoadError, matrixMode, docMode, appVars,
                   askVars, prevRun>>

\* the fetch of the matrix file fails or answers non-2xx: the catch
loadMatrixFailed ==
    /\ kpc = "fetch"
    /\ matrixLoadError' = TRUE
    /\ kpc' = "done"
    /\ UNCHANGED <<workbook, corpora, matrixVoiceText, matrixTicketText,
                   matrixNotesText, matrixMode, docMode, appVars,
                   askVars, prevRun>>

\* onClick of a knowledge source chip
setDocMode ==
    /\ \E d \in DocModes : docMode' = d
    /\ UNCHANGED <<workbook, corpora, matrixVoiceText, matrixTicketText,
                   matrixNotesText, matrixLoadError, matrixMode, kpc, appVars,
                   askVars, prevRun>>

\* onClick of a matrix tab chip
setMatrixMode ==
    /\ \E m \in {"voice", "ticket"} : matrixMode' = m
    /\ UNCHANGED <<workbook, corpora, matrixVoiceText, matrixTicketText,
                   matrixNotesText, matrixLoadError, docMode, kpc, appVars,
                   askVars, prevRun>>

\* the matrix client after its first render, the sheet of notes varying
InitNotes ==
    /\ InitApp
    /\ NoProbes
    /\ docs = DEFAULT_DOCS
    /\ mode = "cloud"
    /\ input = <<>>
    /\ acceptsLeft = 0
    /\ net = {}
    /\ workbook \in NoteWorkbooks
    /\ corpora = PlaceholderCorpora
    /\ matrixVoiceText = <<>>
    /\ matrixTicketText = <<>>
    /\ matrixNotesText = <<>>
    /\ matrixLoadError = FALSE
    /\ matrixMode = "voice"
    /\ docMode = "matrix"
    /\ kpc = "fetch"
    /\ NoAsk
    /\ prevRun = NoRun

NextKnowledge ==
    \/ loadMatrix
    \/ loadMatrixFailed
    \/ setDocMode
    \/ setMatrixMode

SpecKnowledge == InitKnowledge /\ [][NextKnowledge]_vars

SpecNotes == InitNotes /\ [][NextKnowledge]_vars

----------------------------------------------------------------------------
(* The matrix client after a reload of the page *)

MaxReloadRows == 2

ReloadGrids == UNION {[1..n -> MatrixRows] : n \in 0..MaxReloadRows}

ReloadWorkbooks ==
    {[voice |-> Sheet(g), ticket |-> Sheet(TicketGrid), notes |-> Sheet(NotesGrid)] :
        g \in ReloadGrids}

InitReload ==
    /\ InitApp
    /\ NoProbes
    /\ docs = DEFAULT_DOCS
    /\ mode = "cloud"
    /\ input = <<>>
    /\ acceptsLeft = 0
    /\ net = {}
    /\ workbook \in ReloadWorkbooks
    /\ corpora = PastedCorpora
    /\ matrixVoiceText = <<>>
    /\ matrixTicketText = <<>>
    /\ matrixNotesText = <<>>
    /\ matrixLoadError = FALSE
    /\ matrixMode = "voice"
    /\ docMode = "matrix"
    /\ kpc = "fetch"
    /\ NoAsk
    /\ prevRun = NoRun

\* the page is reloaded: App mounts again with its initial state and the
\* effect calls loadMatrix() on the same file
reload ==
    /\ kpc = "done"
    /\ prevRun' = IF matrixLoadError THEN prevRun
                  ELSE [set |-> TRUE, matrixMode |-> matrixMode,
                        docMode |-> docMode, knowledge |-> combinedKnowledge]
    /\ matrixVoiceText' = <<>>
    /\ matrixTicketText' = <<>>
    /\ matrixNotesText' = <<>>
    /\ matrixLoadError' = FALSE
    /\ matrixMode' = "voice"
    /\ docMode' = "matrix"
    /\ kpc' = "fetch"
    /\ question' = <<>>
    /\ lastQuestion' = <<>>
    /\ answer' = <<>>
    /\ isLoading' = FALSE
    /\ errorMsg' = <<>>
    /\ isBillingError' = FALSE
    /\ request' = NoRequest
    /\ UNCHANGED <<workbook, corpora, appVars>>

NextReload ==
    \/ loadMatrix
    \/ loadMatrixFailed
    \/ setDocMode
    \/ setMatrixMode
    \/ reload

SpecReload == InitReload /\ [][NextReload]_vars

----------------------------------------------------------------------------
(* The matrix client: buildSystemPrompt and send() *)

\* the template, its two placeholders one token each
SYSTEM_PROMPT ==
    <<"You are QA Master", "\n", "\n", "HotelPlanner documents:", "\n",
      "{{hotelPlannerKnowledge}}", "\n", "\n", "Agent question:", "\n",
      "{{question}}", "\n", "\n", "Mandatory answer format (STRICT)">>

\* String.prototype.indexOf for a pattern of one token, 0 when absent
indexOf(s, pattern) ==
    IF \E i \in DOMAIN s : s[i] = pattern
    THEN CHOOSE i \in DOMAIN s : s[i] = pattern /\ \A j \in 1..(i - 1) : s[j] # pattern
    ELSE 0

\* the replacement patterns of String.prototype.replace: "$$" inserts a
\* "$" and "$&" inserts the matched text
GetSubstitution(matched, replacement) ==
    [i \in DOMAIN replacement |->
        CASE replacement[i] = "$$" -> "$"
          [] replacement[i] = "$&" -> matched
          [] OTHER -> replacement[i]]

\* String.prototype.replace with a string pattern: the first occurrence
replace(s, pattern, replacement) ==
    LET i == indexOf(s, pattern)
    IN IF i = 0 THEN s
       ELSE SubSeq(s, 1, i - 1) \o GetSubstitution(pattern, replacement)
            \o SubSeq(s, i + 1, Len(s))

buildSystemPrompt(q, knowledge) ==
    replace(replace(SYSTEM_PROMPT, "{{hotelPlannerKnowledge}}", knowledge),
            "{{question}}", trim(q))

isBillingLowCredits(errText) ==
    LET s == toLowerCase(errText)
    IN \/ Includes(s, "credit balance is too low")
       \/ Includes(s, "plans & billing")
       \/ Includes(s, "purchase credits")
       \/ Includes(s, "insufficient")
       \/ Includes(s, "billing")

\* rows of the sheet whose cells hold a placeholder or a dollar pattern
TemplateRow == <<<<>>, <<"Scripts">>, <<"Read ", "{{question}}", " back">>>>
PricedRow == <<<<>>, <<"Rates">>, <<"Quote the ", "$$", " tier">>>>

AskWorkbooks ==
    {[voice |-> Sheet(g), ticket |-> Sheet(TicketGrid), notes |-> NoSheet] :
        g \in {<<ExampleRow>>, <<TemplateRow>>, <<PricedRow>>,
               <<HeaderRow, TemplateRow, ExampleRow>>}}

\* the questions typed
Questions == { <<>>,
               <<" ", "\n">>,
               <<" ", "late checkout", " ">>,
               <<"what is ", "{{hotelPlannerKnowledge}}">>,
               <<"{{question}}", " about ", "$&">> }

\* what the backend of the matrix client may answer
AskOutcomes ==
    {Http(200, ContentBody), Http(200, NullBody), Http(400, CreditBody),
     Http(500, EmptyBody), Unreachable}

InitAsk ==
    /\ InitApp
    /\ NoProbes
    /\ docs = DEFAULT_DOCS
    /\ mode = "cloud"
    /\ input = <<>>
    /\ acceptsLeft = 0
    /\ net = AskOutcomes
    /\ workbook \in AskWorkbooks
    /\ corpora = PlaceholderCorpora
    /\ matrixVoiceText = <<>>
    /\ matrixTicketText = <<>>
    /\ matrixNotesText = <<>>
    /\ matrixLoadError = FALSE
    /\ matrixMode = "voice"
    /\ docMode = "matrix"
    /\ kpc = "fetch"
    /\ NoAsk
    /\ prevRun = NoRun

matrixVars == <<workbook, corpora, matrixVoiceText, matrixTicketText,
                matrixNotesText, matrixLoadError, matrixMode, docMode, kpc,
                prevRun>>

\* onChange of the textarea, which is disabled while isLoading
setQuestion ==
    /\ ~isLoading
    /\ \E text \in Questions : question' = text
    /\ question' # question
    /\ UNCHANGED <<lastQuestion, answer, isLoading, errorMsg, isBillingError,
                   request, matrixVars, appVars>>

\* send() of the matrix client up to its fetch; it returns at once on an
\* empty question or while a request is loading
askSend ==
    /\ trim(question) # <<>>
    /\ ~isLoading
    /\ isLoading' = TRUE
    /\ errorMsg' = <<>>
    /\ isBillingError' = FALSE
    /\ answer' = <<>>
    /\ lastQuestion' = trim(question)
    /\ request' = [system |-> buildSystemPrompt(trim(question), combinedKnowledge),
                   question |-> trim(question)]
    /\ UNCHANGED <<question, matrixVars, appVars>>

\* a 2xx response: the answer is extracted and the textarea emptied
askAnswered ==
    /\ isLoading
    /\ \E o \in net :
         /\ o.type = "http" /\ ResOk(o.status)
         /\ LET text == extractClaudeText(o.body)
            IN answer' = IF text # <<>> THEN text ELSE <<"No answer returned.">>
    /\ question' = <<>>
    /\ isLoading' = FALSE
    /\ UNCHANGED <<lastQuestion, errorMsg, isBillingError, request, matrixVars,
                   appVars>>

\* a non-2xx response or a rejected fetch: the catch and the finally
askFailed ==
    /\ isLoading
    /\ \E o \in net :
         /\ ~(o.type = "http" /\ ResOk(o.status))
         /\ LET msg == IF o.type # "http" THEN NetworkErr.message
                       ELSE IF o.body.t = "obj" /\ o.body.error # <<>>
                       THEN o.body.error
                       ELSE <<"Request failed">>
            IN /\ errorMsg' = msg
               /\ isBillingError' = isBillingLowCredits(msg)
    /\ isLoading' = FALSE
    /\ UNCHANGED <<question, lastQuestion, answer, request, matrixVars, appVars>>

NextAsk ==
    \/ loadMatrix
    \/ loadMatrixFailed
    \/ setDocMode
    \/ setMatrixMode
    \/ setQuestion
    \/ askSend
    \/ askAnswered
    \/ askFailed

SpecAsk == InitAsk /\ [][NextAsk]_vars

----------------------------------------------------------------------------
(* Properties of the dispatcher, checked under SpecDispatch *)

Loading(msgs) == {i \in DOMAIN msgs : msgs[i].kind = "loading"}

TerminalKinds == {"normal", "error", "error401", "error404", "errorNoCredits"}

ErrorKinds == TerminalKinds \ {"normal"}

\* the turn send() created for the submission in progress or just ended
CurrentTurn == messages[Len(messages)]

\* The POST in flight goes to the first path of the list when nothing was
\* attempted in this cycle, else to the successor of the path attempted last.
InListOrder ==
    pc = "fetch" =>
        IF lastResp.type = "none" \/ lastResp.attempt # attempt
        THEN pidx = 1
        ELSE pidx = lastResp.pidx + 1

\* A returned result is the body of the 2xx response received last, and
\* nothing is attempted after it.
FirstSuccessReturned ==
    last.ok =>
        /\ pc = "idle"
        /\ inflight = 0
        /\ lastResp.type = "http" /\ ResOk(lastResp.status)
        /\ last.body = lastResp.body
        /\ last.path = endpoints[lastResp.pidx]

\* C1: postToAnyEndpoint attempts the paths strictly in list order and
\* returns the body of the first endpoint that answers 2xx, attempting none
\* after it; an endpoint A that answers 500 and is not the last of the list
\* is followed by an attempt of the next endpoint B in the same call.
C1_OrderedFallback ==
    /\ InListOrder
    /\ FirstSuccessReturned
    /\ (lastResp.status = 500 /\ lastResp.pidx < Len(endpoints)) =>
           /\ pc = "fetch"
           /\ attempt = lastResp.attempt
           /\ pidx = lastResp.pidx + 1

\* C2: after a 401 or 403 response no further POST is issued for the
\* submission: send() is over, nothing is in flight and no backoff is
\* pending; in the first cycle the POSTs issued are exactly those up to the
\* endpoint that answered.
C2_AuthAbortsDispatch ==
    lastResp.status \in {401, 403} =>
        /\ pc = "idle"
        /\ inflight = 0
        /\ ~isSending
        /\ CurrentTurn.kind \in ErrorKinds
        /\ lastResp.attempt = 1 => posts = lastResp.pidx

\* the first endpoint answered 403 and one POST was issued in all
C2_Witness ==
    /\ lastResp.status = 403
    /\ lastResp.pidx = 1
    /\ lastResp.attempt = 1
    /\ posts = 1
    /\ pc = "idle"

\* C3 as stated: after a 404 response the dispatch is over, no later
\* endpoint is attempted and no retry is made.
C3_Original ==
    lastResp.status = 404 => pc = "idle" /\ inflight = 0

\* C3 as amended: a 404 response starts no backoff and no retry cycle; the
\* only POST that may follow it goes to the next path of the list in the
\* same cycle; a 404 from the last path of the list ends the dispatch at
\* once with the turn in kind error404.
C3_NotFoundNoRetry ==
    lastResp.status = 404 =>
        /\ pc # "sleep"
        /\ pc = "fetch" => attempt = lastResp.attempt /\ pidx = lastResp.pidx + 1
        /\ lastResp.pidx = Len(endpoints) =>
               /\ pc = "idle"
               /\ inflight = 0
               /\ CurrentTurn.kind = "error404"
        /\ backoffs = lastResp.attempt - 1

\* the last path of the list answered 404 in the first cycle, after the
\* earlier paths were attempted, and the dispatch ended without a retry
C3_Witness ==
    /\ lastResp.status = 404
    /\ lastResp.pidx = Len(endpoints)
    /\ lastResp.attempt = 1
    /\ posts = Len(endpoints)
    /\ backoffs = 0
    /\ pc = "idle"

\* C4: a 429 that ends attempt 1 starts exactly one backoff wait, and when
\* attempt 2 then receives a 2xx response the result of the dispatch is the
\* body of that response, shown in the turn, with exactly one backoff.
C4_RetryAfter429 ==
    /\ (lastResp.attempt = 1 /\ lastResp.status = 429 /\ pc # "fetch") =>
           pc = "sleep" /\ backoffs = 1
    /\ (cycle1Err.status = 429 /\ lastResp.attempt = 2 /\ ResOk(lastResp.status)) =>
           /\ pc = "idle"
           /\ last.ok
           /\ last.body = lastResp.body
           /\ backoffs = 1
           /\ CurrentTurn.kind = "normal"
           /\ lastResp.body = AnswerBody => CurrentTurn.text = <<"Do X">>

\* the last path answered 429 in attempt 1 and 200 in attempt 2
C4_Witness ==
    /\ cycle1Err.status = 429
    /\ cycle1Err.path = endpoints[Len(endpoints)]
    /\ lastResp.attempt = 2
    /\ lastResp.status = 200
    /\ lastResp.pidx = Len(endpoints)
    /\ lastResp.body = AnswerBody
    /\ last.path = cycle1Err.path
    /\ backoffs = 1

\* C5: a failure whose error has status 400 and whose message or body
\* contains "credit balance is too low" ends the turn in kind
\* errorNoCredits, not in the generic kind error.
C5_NoCreditsOn400 ==
    (/\ caught.status = 400
     /\ \/ Includes(caught.message, "credit balance is too low")
        \/ Includes(safeString(caught.body), "credit balance is too low")) =>
        /\ CurrentTurn.kind = "errorNoCredits"
        /\ CurrentTurn.text = <<"buildNoCreditsMessage">>
        /\ banner = "Claude credits empty"

\* the dispatch failed with a 400 whose body carries the billing text
C5_Witness ==
    /\ caught.status = 400
    /\ caught.body = CreditBody
    /\ CurrentTurn.kind = "errorNoCredits"
    /\ pc = "idle"


----------------------------------------------------------------------------
(* Properties of the conversation state machine, checked under Spec *)

\* C6: at most one turn of the transcript has kind loading.
C6_AtMostOneLoading == Cardinality(Loading(messages)) <= 1

\* a second submission is loading after the first one was resolved
C6_Witness ==
    /\ Len(messages) = 5
    /\ messages[3].kind = "normal"
    /\ messages[5].kind = "loading"

\* C7: while a turn is loading a run of send() changes neither the
\* transcript nor the POSTs issued nor the fetches in flight, and at most
\* one fetch is in flight at any time.
C7_SecondSubmissionNoOp ==
    [][ /\ inflight' <= 1
        /\ (Loading(messages) # {} /\ ev' = "send") =>
               /\ messages' = messages
               /\ posts' = posts
               /\ inflight' = inflight
               /\ pc' = pc
               /\ isSending' = isSending ]_vars

\* send() ran while the second POST of a submission was in flight
C7_Witness ==
    /\ ev = "send"
    /\ pc = "fetch"
    /\ posts = 2
    /\ Loading(messages) # {}
    /\ Len(messages) = 3

\* C8: a turn changes kind only from loading to a terminal kind (never back
\* to loading, never twice); the end of a dispatch takes the loading turn
\* to normal on success and to an error kind on failure.
C8_LoadingResolvesOnce ==
    [][ /\ Len(messages') >= Len(messages)
        /\ \A i \in DOMAIN messages :
             messages'[i].kind # messages[i].kind =>
                 /\ messages[i].kind = "loading"
                 /\ messages'[i].kind \in TerminalKinds
        /\ (isSending /\ ~isSending') =>
               /\ Loading(messages) # {}
               /\ Loading(messages') = {}
               /\ \A i \in Loading(messages) :
                    IF last'.ok THEN messages'[i].kind = "normal"
                    ELSE messages'[i].kind \in ErrorKinds ]_vars

\* a turn resolved to an error kind keeps it while a later turn is loading
C8_Witness ==
    /\ Len(messages) = 5
    /\ messages[3].kind \in ErrorKinds
    /\ messages[5].kind = "loading"
    /\ pc = "sleep"

\* C9: a step changes no turn but the most recent assistant turn, and that
\* one keeps its id and role; no turn is removed.
C9_OnlyLastAssistantMutated ==
    [][ /\ Len(messages') >= Len(messages)
        /\ \A i \in DOMAIN messages :
             IF i = LastAssistant(messages)
             THEN /\ messages'[i].id = messages[i].id
                  /\ messages'[i].role = messages[i].role
             ELSE messages'[i] = messages[i] ]_vars

\* the assistant turn of a second submission was resolved behind four
\* earlier turns
C9_Witness ==
    /\ Len(messages) = 5
    /\ messages[5].kind \in TerminalKinds
    /\ messages[5].text # <<>>
    /\ messages[3].kind = "error404"
    /\ messages[1].text = IntroText

\* C10: a run of send() with a non-empty trimmed question, a selected
\* document and no loading turn appends exactly two turns: the user turn
\* with the trimmed question, then an assistant turn in kind loading with
\* the label of the mode.
C10_AcceptedAppendsTwo ==
    [][ (/\ ev' = "send"
         /\ normalizeWs(input) # <<>>
         /\ enabledCount(docs) >= 1
         /\ Loading(messages) = {}) =>
            /\ Len(messages') = Len(messages) + 2
            /\ SubSeq(messages', 1, Len(messages)) = messages
            /\ LET u == messages'[Len(messages) + 1]
                   a == messages'[Len(messages) + 2]
               IN /\ u.role = "user"
                  /\ u.text = normalizeWs(input)
                  /\ u.text[1] \notin Whitespace
                  /\ u.text[Len(u.text)] \notin Whitespace
                  /\ u.kind # "loading"
                  /\ a.role = "assistant"
                  /\ a.kind = "loading"
                  /\ a.text = <<>>
                  /\ a.thinkingText = IF mode = "cloud"
                                      THEN <<"Thinking in cloud mode">>
                                      ELSE <<"Thinking locally">>
                  /\ u.id # a.id
                  /\ \A i \in DOMAIN messages : messages[i].id \notin {u.id, a.id} ]_vars

\* a submission in local mode has just appended its two turns
C10_Witness ==
    /\ ev = "send"
    /\ mode = "local"
    /\ Len(messages) = 3
    /\ messages[2].role = "user"
    /\ messages[2].text = <<"late", "\n", "checkout">>
    /\ messages[3].kind = "loading"
    /\ messages[3].thinkingText = <<"Thinking locally">>
    /\ posts = 1

----------------------------------------------------------------------------
(* Properties of the local validation of send(), checked under Spec *)

NoDocSelected == \A k \in DocKeys : ~docs[k]

BlankInput == \A i \in DOMAIN input : input[i] \in Whitespace

\* C11: a run of send() with a question, no dispatch in progress and no
\* document selected appends no turn, issues no POST and sets the banner
\* "No docs selected".
C11_NoDocsRejected ==
    [][ (/\ ev' = "send"
         /\ ~BlankInput
         /\ ~isSending
         /\ NoDocSelected) =>
            /\ messages' = messages
            /\ posts' = posts
            /\ inflight' = inflight
            /\ pc' = pc
            /\ isSending' = isSending
            /\ banner' = "No docs selected" ]_vars

\* send() ran on a typed question after the only selected document was
\* switched off
C11_Witness ==
    /\ ev = "send"
    /\ banner = "No docs selected"
    /\ NoDocSelected
    /\ ~BlankInput
    /\ Len(messages) = 1
    /\ posts = 0
    /\ pc = "idle"

\* C12 as stated: a run of send() on a question that is empty after
\* trimming appends no turn, issues no POST and leaves an advisory banner
\* on the screen.
C12_Original ==
    [][ (ev' = "send" /\ BlankInput) =>
            /\ messages' = messages
            /\ posts' = posts
            /\ banner' # "none" ]_vars

\* C12 as amended: a run of send() on a question that is empty after
\* trimming returns at the first guard: it appends no turn, issues no POST
\* and leaves the banner as it was, so it sets no advisory.
C12_EmptyQuestionIgnored ==
    [][ (ev' = "send" /\ BlankInput) =>
            /\ messages' = messages
            /\ posts' = posts
            /\ inflight' = inflight
            /\ pc' = pc
            /\ isSending' = isSending
            /\ banner' = banner ]_vars

\* send() ran on a question of white space only, with documents selected
C12_Witness ==
    /\ ev = "send"
    /\ input = <<" ", "\n">>
    /\ ~NoDocSelected
    /\ ~isSending
    /\ banner = "none"
    /\ Len(messages) = 1
    /\ posts = 0

----------------------------------------------------------------------------
(* Properties of the end of a dispatch and of the answer extraction,      *)
(* checked under SpecDispatch                                              *)

\* C13: when the dispatch has succeeded the turn of the submission has kind
\* normal and its text is the answer extracted from the returned body,
\* white space normalised, or the literal fallback exactly when that answer
\* is empty.
C13_SuccessResolvesTurn ==
    last.ok =>
        /\ CurrentTurn.kind = "normal"
        /\ LET extracted == normalizeWs(pickAnswerFromBody(last.body))
           IN CurrentTurn.text = IF extracted = <<>>
                                 THEN <<"No answer returned from server.">>
                                 ELSE extracted
        /\ last.body = AnswerBody => CurrentTurn.text = <<"Do X">>
        /\ last.body = PaddedBody => CurrentTurn.text = <<"Step 1">>
        /\ last.body \in {NullBody, BlankBody} =>
               CurrentTurn.text = <<"No answer returned from server.">>
        /\ (CurrentTurn.text = <<"No answer returned from server.">>) =
               (last.body \in {NullBody, BlankBody})

\* the second cycle ended with a 2xx response without a body and the turn
\* shows the fallback
C13_Witness ==
    /\ last.ok
    /\ last.body = NullBody
    /\ lastResp.attempt = 2
    /\ CurrentTurn.kind = "normal"
    /\ CurrentTurn.text = <<"No answer returned from server.">>
    /\ ~isSending

\* C14: a dispatch that failed with status 401 or 403 leaves the turn of
\* the submission in the auth error kind, error401, for both statuses.
C14_AuthErrorKind ==
    caught.status \in {401, 403} => CurrentTurn.kind = "error401"

\* the texts of the blocks of type text, joined by blank lines
BlocksText(c) ==
    LET IsText(b) == b.type = "text"
        blocks == SelectSeq(c, IsText)
    IN trim(Join([i \in DOMAIN blocks |-> blocks[i].text], <<"\n", "\n">>))

\* the answer the stated order gives for a provider response: the text
\* blocks, else the flat text or output_text field
StatedAnswer(b) ==
    IF BlocksText(b.content) # <<>> THEN BlocksText(b.content)
    ELSE IF b.text # <<>> THEN trim(b.text)
    ELSE trim(b.output_text)

ProviderResponse(b) ==
    /\ b.t = "obj"
    /\ b.answer = <<>>
    /\ StatedAnswer(b) # <<>>

\* extractClaudeText follows the stated order
C15_ByExtractClaudeText ==
    (last.ok /\ ProviderResponse(last.body)) =>
        extractClaudeText(last.body) = StatedAnswer(last.body)

\* pickAnswerFromBody, whose result send() shows, follows the stated order
C15_ByPickAnswerFromBody ==
    (last.ok /\ ProviderResponse(last.body)) =>
        /\ pickAnswerFromBody(last.body) = StatedAnswer(last.body)
        /\ CurrentTurn.text = StatedAnswer(last.body)

\* C15: the answer shown for a provider response is the text of its text
\* blocks joined by blank lines, else its flat text or output_text field,
\* and never the serialized JSON of a body that carries one of these.
C15_ExtractionOrder ==
    /\ C15_ByExtractClaudeText
    /\ C15_ByPickAnswerFromBody

NoAnswerField(b) ==
    /\ b.t = "obj"
    /\ b.answer = <<>> /\ b.text = <<>> /\ b.output_text = <<>>
    /\ b.content = <<>>

\* extractClaudeText yields the empty string for a body without an answer
C16_ByExtractClaudeText ==
    (last.ok /\ NoAnswerField(last.body)) => extractClaudeText(last.body) = <<>>

\* C16: for a 2xx body without a recognizable answer field the extraction
\* yields the empty string and the turn shows the fallback message.
C16_EmptyWhenUnrecognized ==
    /\ C16_ByExtractClaudeText
    /\ (last.ok /\ NoAnswerField(last.body)) =>
           /\ pickAnswerFromBody(last.body) = <<>>
           /\ CurrentTurn.text = <<"No answer returned from server.">>

----------------------------------------------------------------------------
(* Properties of the tabular extractor and of the knowledge assembler,    *)
(* checked under SpecKnowledge                                             *)

RECURSIVE SplitLines(_, _)
SplitLines(s, line) ==
    IF s = <<>> THEN <<line>>
    ELSE IF s[1] = "\n" THEN <<line>> \o SplitLines(Tail(s), <<>>)
    ELSE SplitLines(Tail(s), Append(line, s[1]))

\* the lines of a text
Lines(text) == SplitLines(text, <<>>)

StartsWith(line, labels) == line # <<>> /\ line[1] \in labels

\* the positions of a sequence whose element passes a test, in order
Positions(s, Test(_)) ==
    LET Passes(i) == Test(s[i])
    IN SelectSeq([i \in 1..Len(s) |-> i], Passes)

Normalized(row, j) == normalizeCell(CellAt(row, j))

IsHeaderRow(row) ==
    /\ Normalized(row, 1) # <<>>
    /\ toLowerCase(Normalized(row, 2)) = <<"instructions">>

IsRecordRow(row) ==
    /\ Normalized(row, 1) # <<>>
    /\ Normalized(row, 2) # <<>>
    /\ ~IsHeaderRow(row)

VoiceLoaded == kpc = "done" /\ ~matrixLoadError /\ workbook.voice.present

StatedLabel(j) ==
    CASE j = 1 -> "- Issue: "
      [] j = 2 -> "  Instructions: "
      [] j = 3 -> "  Slack: "
      [] j = 4 -> "  Refund Queue: "
      [] j = 5 -> "  Create a Ticket: "
      [] j = 6 -> "  Supervisor: "
      [] OTHER -> "  VIPRES: "

RECURSIVE StatedLines(_, _)
\* the lines of the record of a row from column j on: the line of a column
\* is present when its cell is not empty
StatedLines(row, j) ==
    IF j > 7 THEN <<>>
    ELSE (IF Normalized(row, j) # <<>>
          THEN <<<<StatedLabel(j)>> \o Normalized(row, j)>> ELSE <<>>)
         \o StatedLines(row, j + 1)

RECURSIVE StatedRecords(_)
\* the record lines of a grid: those of its record rows, in row order
StatedRecords(rows) ==
    IF rows = <<>> THEN <<>>
    ELSE (IF IsRecordRow(rows[1]) THEN StatedLines(rows[1], 1) ELSE <<>>)
         \o StatedRecords(Tail(rows))

\* the lines of a text that belong to a record
RecordLines(text) ==
    LET IsField(line) == StartsWith(line, {StatedLabel(j) : j \in 1..7})
    IN SelectSeq(Lines(text), IsField)

\* C17: the record lines of the text sheetToMatrixText returns are those
\* of the rows whose normalized columns 1 and 2 are both non-empty, in row
\* order: the Issue and Instructions lines, then one line for each
\* non-empty cell of columns 3 to 7 in the order Slack, Refund Queue,
\* Create a Ticket, Supervisor, VIPRES; the example row yields exactly its
\* Issue, Instructions and Slack lines.
C17_RecordsOfGrid ==
    VoiceLoaded =>
        /\ RecordLines(matrixVoiceText) = StatedRecords(workbook.voice.rows)
        /\ workbook.voice.rows = <<ExampleRow>> =>
               matrixVoiceText =
                   <<"=== ", "VOICE MATRIX (Customer Service)", " ===", "\n",
                     "- Issue: ", "Refund", "\n",
                     "  Instructions: ", "Process refund", "\n",
                     "  Slack: ", "#slack-x">>

\* a sheet with a header, a row with blank optional cells and the example
\* row was extracted
C17_Witness ==
    /\ VoiceLoaded
    /\ workbook.voice.rows = <<HeaderRow, SparseRow, ExampleRow>>
    /\ Len(RecordLines(matrixVoiceText)) = 7
    /\ RecordLines(matrixVoiceText)[3] = <<"  Create a Ticket: ", "Open ticket">>
    /\ RecordLines(matrixVoiceText)[4] = <<"  VIPRES: ", "VIP desk">>

\* the positions of the Issue lines in the lines of a text
IssueLines(lines) ==
    LET IsIssue(line) == StartsWith(line, {"- Issue: "})
    IN Positions(lines, IsIssue)

\* the category a result attributes to its line i: the one of the last
\* category line above it, the empty string when there is none
CategoryInResult(lines, i) ==
    LET H == {j \in 1..(i - 1) : StartsWith(lines[j], {"# "})}
    IN IF H = {} THEN <<>>
       ELSE Tail(lines[CHOOSE j \in H : \A k \in H : k <= j])

\* the category of row r as stated: the one of the last CategoryHeader row
\* above it, "General" when there is none
StatedCategory(rows, r) ==
    LET H == {h \in 1..(r - 1) : IsHeaderRow(rows[h])}
    IN IF H = {} THEN <<"General">>
       ELSE Normalized(rows[CHOOSE h \in H : \A k \in H : k <= h], 1)

\* the records of the result are those of the record rows, none for a
\* CategoryHeader row, and every record that passes the test carries the
\* category stated for its row
CategoriesAgree(rows, text, Test(_, _)) ==
    LET lines == Lines(text)
        issues == IssueLines(lines)
        records == Positions(rows, IsRecordRow)
    IN /\ Len(issues) = Len(records)
       /\ \A k \in 1..Len(records) :
            Test(rows, records[k]) =>
                CategoryInResult(lines, issues[k]) = StatedCategory(rows, records[k])

UnderHeader(rows, r) == \E h \in 1..(r - 1) : IsHeaderRow(rows[h])

AnyRow(rows, r) == TRUE

\* a CategoryHeader row produces no record and the records below it carry
\* its category in the result, up to the next CategoryHeader
C18_RelabelledByHeader ==
    VoiceLoaded =>
        CategoriesAgree(workbook.voice.rows, matrixVoiceText, UnderHeader)

\* C18: a CategoryHeader row produces no record and re-labels the category
\* of the rows below it up to the next CategoryHeader; the records above
\* every CategoryHeader carry the category "General" in the result.
C18_CategoryAttribution ==
    VoiceLoaded =>
        CategoriesAgree(workbook.voice.rows, matrixVoiceText, AnyRow)

NoDataRows(rows) ==
    \A r \in 1..Len(rows) : ~IsRecordRow(rows[r]) /\ ~IsHeaderRow(rows[r])

\* a joined to b by a blank line, nothing being added to an empty side
Glue(a, b) ==
    IF a = <<>> THEN b
    ELSE IF b = <<>> THEN a
    ELSE a \o <<"\n", "\n">> \o b

\* C19: a sheet without data rows (no row, or skipped rows only) gives the
\* empty string, and the knowledge assembled with it selected holds the
\* corpus and the notes only.
C19_EmptySheetNoBlock ==
    (VoiceLoaded /\ NoDataRows(workbook.voice.rows)) =>
        /\ matrixVoiceText = <<>>
        /\ (matrixMode = "voice" /\ docMode = "matrix") =>
               combinedKnowledge =
                   Glue(trim(corpora.hotelPlanner), trim(matrixNotesText))

\* the text the modes select, as stated
StatedModeText ==
    IF docMode # "matrix" THEN corpora[docMode]
    ELSE IF matrixMode = "voice" THEN matrixVoiceText
    ELSE matrixTicketText

\* C20: the assembled knowledge is the trimmed corpus, the trimmed
\* mode-selected text and the trimmed notes, in that order, the empty ones
\* dropped and the others joined by one blank line; it neither starts nor
\* ends with white space and is empty only when all three are.
C20_AssembledKnowledge ==
    LET corpus == trim(corpora.hotelPlanner)
        selected == trim(StatedModeText)
        notes == trim(matrixNotesText)
        k == combinedKnowledge
    IN /\ k = Glue(Glue(corpus, selected), notes)
       /\ k # <<>> => k[1] \notin Whitespace /\ k[Len(k)] \notin Whitespace
       /\ (k = <<>>) = (corpus = <<>> /\ selected = <<>> /\ notes = <<>>)
       /\ Len(k) <= Len(corpus) + Len(selected) + Len(notes) + 4

\* a padded corpus and the notes were joined around a blank training guide
C20_Witness ==
    /\ kpc = "done"
    /\ corpora = PastedCorpora
    /\ docMode = "training"
    /\ matrixNotesText # <<>>
    /\ combinedKnowledge =
           <<"Core policy", "\n", "\n", "Escalation list", "\n", "\n">>
           \o matrixNotesText

----------------------------------------------------------------------------
(* Retry cycles, fall-through and the surfaced error, under SpecDispatch *)

\* the error postToAnyEndpoint built from the response received last
LastRespError == ErrorOf(lastResp, endpoints[lastResp.pidx])

\* the response received last ended its cycle: it was thrown to send()
LastRespThrown ==
    StopsLoop(LastRespError) \/ lastResp.pidx = Len(endpoints)

RetryableStatus(status) == status = 429 \/ status >= 500

\* C25 as stated: a 429 or 5xx received while a cycle is left falls through
\* to no later path: what follows it is the backoff and the first path.
C25_Original ==
    (/\ lastResp.type = "http"
     /\ RetryableStatus(lastResp.status)
     /\ lastResp.attempt < maxAttempts) =>
        \/ pc = "sleep"
        \/ pc = "fetch" /\ attempt = lastResp.attempt + 1 /\ pidx = 1

\* C25 as amended: a 429 or 5xx from a path that is not the last of the list
\* falls through at once to the next path of the same cycle, without a
\* backoff; a 429 or 5xx that ends the cycle (the last path answered it, or
\* the error is taken for an abort) starts one backoff and then the first
\* path of the next cycle while a cycle is left, and ends the dispatch in
\* kind error in the last cycle; no more than maxAttempts cycles are run.
C25_BackoffAfterCycle ==
    /\ attempt <= maxAttempts
    /\ backoffs <= maxAttempts - 1
    /\ (lastResp.type = "http" /\ RetryableStatus(lastResp.status)) =>
          /\ ~LastRespThrown =>
                /\ pc = "fetch"
                /\ attempt = lastResp.attempt
                /\ pidx = lastResp.pidx + 1
                /\ backoffs = lastResp.attempt - 1
          /\ (LastRespThrown /\ lastResp.attempt < maxAttempts) =>
                /\ backoffs = lastResp.attempt
                /\ \/ pc = "sleep" /\ attempt = lastResp.attempt
                   \/ pc = "fetch" /\ attempt = lastResp.attempt + 1 /\ pidx = 1
          /\ (LastRespThrown /\ lastResp.attempt = maxAttempts) =>
                /\ pc = "idle"
                /\ inflight = 0
                /\ CurrentTurn.kind = "error"

\* the last path answered 500 in the first cycle after the earlier paths
\* were attempted, one backoff was slept and the first path is POSTed again
C25_Witness ==
    /\ lastResp.status = 500
    /\ lastResp.pidx = Len(endpoints)
    /\ lastResp.attempt = 1
    /\ ~isAbort(LastRespError)
    /\ pc = "fetch"
    /\ attempt = 2
    /\ pidx = 1
    /\ backoffs = 1
    /\ posts = Len(endpoints) + 1

\* C26 as stated: after a response with another non-2xx status (400) the
\* dispatch is over: no backoff and no further POST follows it.
C26_Original ==
    lastResp.status = 400 => pc = "idle" /\ inflight = 0

\* C26 as amended: a response with status 400 starts no backoff and no
\* retry cycle; the only POST that may follow it goes to the next path of
\* the list in the same cycle; when it ends the cycle the dispatch ends at
\* once, the turn classified error or errorNoCredits from that response.
C26_OtherStatusNoRetry ==
    lastResp.status = 400 =>
        /\ pc # "sleep"
        /\ backoffs = lastResp.attempt - 1
        /\ ~LastRespThrown =>
               pc = "fetch" /\ attempt = lastResp.attempt /\ pidx = lastResp.pidx + 1
        /\ LastRespThrown =>
               /\ pc = "idle"
               /\ inflight = 0
               /\ caught = LastRespError
               /\ CurrentTurn.kind = IF isNoCreditsError(caught)
                                     THEN "errorNoCredits" ELSE "error"

\* the last path answered 400 in the first cycle, after the earlier paths
\* were attempted, and the dispatch ended without a backoff
C26_Witness ==
    /\ lastResp.status = 400
    /\ lastResp.body = EmptyBody
    /\ lastResp.pidx = Len(endpoints)
    /\ lastResp.attempt = 1
    /\ posts = Len(endpoints)
    /\ backoffs = 0
    /\ pc = "idle"
    /\ CurrentTurn.kind = "error"

\* C27: when the timer of an attempt aborts its fetch nothing more is
\* POSTed for the submission, and the turn ends in kind error with the
\* timed-out message, not the network or the server message.
C27_TimeoutEndsDispatch ==
    lastResp.type = "abort" =>
        /\ pc = "idle"
        /\ inflight = 0
        /\ ~isSending
        /\ backoffs = lastResp.attempt - 1
        /\ caught = AbortErr
        /\ CurrentTurn.kind = "error"
        /\ CurrentTurn.text[1] = "Timed out. Server took too long. Try again."
        /\ CurrentTurn.text[1] # Friendly(NetworkErr)[1]
        /\ CurrentTurn.text[1] # Friendly(HttpError(500, EmptyBody, ""))[1]

\* the POST to the first path timed out: it was the only POST
C27_Witness ==
    /\ lastResp.type = "abort"
    /\ lastResp.pidx = 1
    /\ lastResp.attempt = 1
    /\ posts = 1
    /\ pc = "idle"
    /\ CurrentTurn.kind = "error"

\* C28: when every path of the list was tried without success the error
\* send() catches is the one of the last path attempted in the last cycle,
\* with the status, the path and the raw body of that response.
C28_LastErrorSurfaced ==
    (pc = "idle" /\ caught # NoError /\ lastResp.pidx = Len(endpoints)) =>
        /\ caught = lastErr
        /\ caught = LastRespError
        /\ lastResp.attempt = attempt
        /\ lastResp.type = "http" =>
               /\ caught.status = lastResp.status
               /\ caught.path = endpoints[Len(endpoints)]
               /\ caught.body = lastResp.body

\* the first cycle ended with a 429 and the second with a 500 of the last
\* path, whose body the surfaced error carries
C28_Witness ==
    /\ pc = "idle"
    /\ cycle1Err.status = 429
    /\ lastResp.pidx = Len(endpoints)
    /\ lastResp.attempt = maxAttempts
    /\ lastResp.status = 500
    /\ lastResp.body = CreditBody
    /\ caught.status = 500
    /\ caught.body = CreditBody
    /\ posts = 2 * Len(endpoints)

----------------------------------------------------------------------------
(* The extraction of the notes, under SpecNotes *)

NotesLoaded == kpc = "done" /\ ~matrixLoadError /\ workbook.notes.present

\* a row of notes yields an entry
IsNoteRow(row) ==
    /\ Normalized(row, 1) # <<>>
    /\ Normalized(row, 2) # <<>> \/ Normalized(row, 3) # <<>>

\* the entry of a row: its title line, then the line of column 2 and the
\* line of column 3, each present when its cell is not empty
StatedNote(row) ==
    <<<<"- ">> \o Normalized(row, 1)>>
    \o (IF Normalized(row, 2) # <<>> THEN <<<<"  ">> \o Normalized(row, 2)>> ELSE <<>>)
    \o (IF Normalized(row, 3) # <<>> THEN <<<<"  ">> \o Normalized(row, 3)>> ELSE <<>>)

RECURSIVE StatedNotes(_)
\* the entries of a grid, each closed by an empty line, in row order
StatedNotes(rows) ==
    IF rows = <<>> THEN <<>>
    ELSE (IF IsNoteRow(rows[1]) THEN StatedNote(rows[1]) \o <<<<>>>> ELSE <<>>)
         \o StatedNotes(Tail(rows))

\* the lines of the text after its heading and the empty line below it
NoteLines(text) ==
    LET lines == Lines(text)
    IN IF Len(lines) <= 2 THEN <<>> ELSE SubSeq(lines, 3, Len(lines))

\* a sequence without its last element
Front(s) == IF s = <<>> THEN <<>> ELSE SubSeq(s, 1, Len(s) - 1)

\* C30: the text sheetToNotesText returns holds one entry for each row with
\* a title in column 1 and a non-empty column 2 or 3, in row order: the
\* title line, then the line of column 2 and the line of column 3, each
\* present exactly when its cell is not empty; a row without a title or
\* with neither column yields nothing.
C30_NotesEntries ==
    NotesLoaded =>
        /\ NoteLines(matrixNotesText) = Front(StatedNotes(workbook.notes.rows))
        /\ Cardinality({i \in DOMAIN Lines(matrixNotesText) :
                           StartsWith(Lines(matrixNotesText)[i], {"- "})})
             = Cardinality({r \in DOMAIN workbook.notes.rows :
                               IsNoteRow(workbook.notes.rows[r])})

\* a row with both columns, a row with a title only and a row with
\* column 3 only were extracted: two entries of three and two lines
C30_Witness ==
    /\ NotesLoaded
    /\ workbook.notes.rows = <<NoteBoth, NoteTitleOnly, NoteCol3>>
    /\ matrixNotesText =
          <<"=== ", "ITEMS TO NOTE", " ===", "\n", "\n",
            "- ", "Late arrival", "\n",
            "  ", "Call the hotel", "\n",
            "  ", "Note it in the booking", "\n", "\n",
            "- ", "Pets", "\n",
            "  ", "Ask the hotel">>

----------------------------------------------------------------------------
(* Extraction and assembly repeated, under SpecReload *)

----------------------------------------------------------------------------
(* The prompt of the matrix client, under SpecAsk *)

\* the template with each placeholder replaced by its text, verbatim
StatedPrompt(q, knowledge) ==
    LET part(i) ==
            CASE SYSTEM_PROMPT[i] = "{{hotelPlannerKnowledge}}" -> knowledge
              [] SYSTEM_PROMPT[i] = "{{question}}" -> q
              [] OTHER -> <<SYSTEM_PROMPT[i]>>
    IN Join([i \in DOMAIN SYSTEM_PROMPT |-> part(i)], <<>>)

\* C22: the prompt send() posts is the template with the knowledge
\* placeholder replaced once by the knowledge, verbatim, and the question
\* placeholder replaced once by the trimmed question, verbatim, whatever
\* tokens the two texts contain.
C22_PromptFilled ==
    [][ (isLoading' /\ ~isLoading) =>
            request'.system = StatedPrompt(trim(question), combinedKnowledge) ]_vars

\* the question placeholder is filled verbatim when neither text holds a
\* placeholder or a dollar pattern
C22_PlainTextsFilled ==
    [][ (/\ isLoading' /\ ~isLoading
         /\ ~Includes(combinedKnowledge, "{{question}}")
         /\ ~Includes(combinedKnowledge, "$$")
         /\ question # <<"{{question}}", " about ", "$&">>) =>
            request'.system = StatedPrompt(trim(question), combinedKnowledge) ]_vars

----------------------------------------------------------------------------
(* The preferences after startup, under SpecStartup *)

MODE_KEYS == {"cloud", "local"}

\* C23: whatever the preference store holds at startup, mode is a valid
\* mode string and docs maps the document keys to booleans, at startup and
\* ever after.
C23_ValidPreferences ==
    /\ mode \in MODE_KEYS
    /\ docs \in [DocKeys -> BOOLEAN]

\* an entry that is absent or that JSON.parse rejects yields the default
C23_DefaultOnMissingOrCorrupt ==
    /\ \A v \in MODE_KEYS \cup {"banana", "null"} :
          /\ tryLoadLocal(NoEntry(v), "cloud") = "cloud"
          /\ tryLoadLocal(CorruptEntry(v), "cloud") = "cloud"
    /\ \A d \in StoredDocs :
          /\ tryLoadLocal(NoEntry(d), DEFAULT_DOCS) = DEFAULT_DOCS
          /\ tryLoadLocal(CorruptEntry(d), DEFAULT_DOCS) = DEFAULT_DOCS

----------------------------------------------------------------------------
(* The checks of availability and health, under SpecProbes *)

\* a submission send() is to accept
ValidSubmission == ~isSending /\ ~BlankInput /\ ~NoDocSelected /\ acceptsLeft > 0

\* C24: a HEAD check or a health check that fails, answers non-2xx or
\* times out ends in its handler: the file is marked unavailable (the
\* health flag set to false) and a banner is shown; whatever the checks
\* found, a valid submission is accepted and dispatched.
C24_FailedChecksContained ==
    /\ [](availPc = "done" =>
             \A k \in DocKeys : docAvail[k] = (probeNet.heads[k] = "ok"))
    /\ [](ValidSubmission => ENABLED SendAccepted)
    /\ [][ /\ (ev' = "avail" /\ \E k \in DocKeys : probeNet.heads[k] # "ok") =>
                banner' = "Some public docs were not found"
           /\ (ev' = "health" /\ probeNet.health # "ok") =>
                /\ healthOk' = "false"
                /\ banner' \in {"Server health check failed", "Server not reachable"}
           /\ (ev' = "send" /\ ValidSubmission) =>
                isSending' /\ posts' = 1 /\ pc' = "fetch" ]_vars

\* the HEAD of the matrix file and the health check timed out, and the
\* submission typed was accepted with the matrix file selected: its first
\* POST is in flight
C24_Witness ==
    /\ availPc = "done"
    /\ probeNet.heads["matrix"] = "timeout"
    /\ probeNet.health = "timeout"
    /\ ~docAvail["matrix"]
    /\ docs["matrix"]
    /\ healthOk = "false"
    /\ isSending
    /\ pc = "fetch"
    /\ posts = 1

----------------------------------------------------------------------------
(* The deadline of an attempt, under SpecAttempt *)

\* C29: while a POST is pending, its response or the body of its response
\* awaited, the timer that cancels it at the deadline is set: no pending
\* attempt is left without a deadline.
C29_AttemptBounded ==
    (isSending /\ AwaitsResponse) => TimerSet

\* while the response itself is awaited the timer is set and the abort can
\* end the attempt
C29_FetchBounded ==
    (isSending /\ pc = "fetch") => TimerSet /\ Settles(Aborted)

----------------------------------------------------------------------------
(* The cost and the end of the retry loop, under SpecDispatch *)

\* C33: one submission issues at most maxAttempts * |endpoints| POSTs and
\* sleeps at most maxAttempts - 1 backoffs, and when its retry loop has
\* ended it has either a result or an error, never neither and never both.
C33_BoundedDispatch ==
    /\ posts <= maxAttempts * Len(endpoints)
    /\ backoffs <= maxAttempts - 1
    /\ attempt <= maxAttempts
    /\ (pc = "idle" /\ posts > 0) => (last.ok # (caught # NoError))
    /\ pc # "idle" => ~last.ok /\ caught = NoError

\* every path answered 500 in both cycles: fourteen POSTs, one backoff, and
\* the loop ended by throwing
C33_Witness ==
    /\ pc = "idle"
    /\ posts = maxAttempts * Len(endpoints)
    /\ backoffs = maxAttempts - 1
    /\ ~last.ok
    /\ caught.status = 500
    /\ cycle1Err.status = 500

----------------------------------------------------------------------------
(* isSending and the transcript, under Spec *)

\* C35: isSending is true exactly when one turn has kind loading, and
\* while it is false no turn has kind loading.
C35_SendingIffLoading ==
    /\ isSending <=> Cardinality(Loading(messages)) = 1
    /\ ~isSending => Loading(messages) = {}

\* a first submission has ended in an error and a second one is loading
C35_Witness ==
    /\ isSending
    /\ Len(messages) = 5
    /\ messages[3].kind \in ErrorKinds
    /\ Loading(messages) = {5}

----------------------------------------------------------------------------
(* Errors with a status and the abort, under SpecDispatch *)

\* C36: an error with an HTTP status is not taken for an abort: unless its
\* status is 401 or 403 the response of a path that is not the last falls
\* through to the next path, and a failure with a status is never shown
\* with the timed-out message.
C36_StatusIsNoAbort ==
    /\ (/\ lastResp.type = "http"
        /\ ~ResOk(lastResp.status)
        /\ lastResp.status \notin {401, 403}
        /\ lastResp.pidx < Len(endpoints)) =>
           pc = "fetch" /\ attempt = lastResp.attempt /\ pidx = lastResp.pidx + 1
    /\ (pc = "idle" /\ caught.status # 0) =>
           CurrentTurn.text[1] # "Timed out. Server took too long. Try again."

\* errors whose text does not hold the word "aborted" fall through
C36_PlainErrorsFallThrough ==
    (/\ lastResp.type = "http"
     /\ ~ResOk(lastResp.status)
     /\ lastResp.status \notin {401, 403}
     /\ lastResp.body # AbortedTextBody
     /\ lastResp.pidx < Len(endpoints)) =>
        pc = "fetch" /\ attempt = lastResp.attempt /\ pidx = lastResp.pidx + 1

----------------------------------------------------------------------------
(* A billing error followed by other errors, under SpecDispatch *)

\* C34: when some path attempted for the submission answered 400, 402 or
\* 403 with the billing text, a dispatch that fails ends the turn in kind
\* errorNoCredits, whatever the paths attempted after it answered.
C34_NoCreditsSticks ==
    (pc = "idle" /\ caught # NoError /\ lastResp.sawNoCredits) =>
        CurrentTurn.kind = "errorNoCredits"

\* a billing error that is the error send() catches gives errorNoCredits
C34_NoCreditsWhenLast ==
    (pc = "idle" /\ caught # NoError /\ caught.status # 401
     /\ isNoCreditsError(caught)) =>
        CurrentTurn.kind = "errorNoCredits"

----------------------------------------------------------------------------
(* The chips of unavailable documents, under SpecChips *)

\* some document is selected and every selected document is unavailable
OnlyUnavailableSelected ==
    /\ ~NoDocSelected
    /\ \A k \in DocKeys : docs[k] => ~docAvail[k]

\* C37: a click on the chip of an unavailable document changes no
\* selection and sets the banner; a document selected and unavailable stays
\* selected and counts for the check of send(), so a submission is
\* accepted and dispatched when every selected document is unavailable.
C37_UnavailableStaysSelected ==
    /\ [][ togglesLeft' = togglesLeft - 1 =>
              /\ \A k \in DocKeys : docs'[k] # docs[k] => docAvail[k]
              /\ docs' = docs => banner' = "Missing public file" ]_vars
    /\ []((OnlyUnavailableSelected /\ ValidSubmission) => ENABLED SendAccepted)
    /\ [][ (ev' = "send" /\ OnlyUnavailableSelected /\ ValidSubmission) =>
              isSending' /\ posts' = 1 /\ docs' = docs ]_vars

\* the matrix file is missing and is the only document selected; its chip
\* was clicked, and the submission was dispatched
C37_Witness ==
    /\ availPc = "done"
    /\ ~docAvail["matrix"]
    /\ docs = [k \in DocKeys |-> k = "matrix"]
    /\ togglesLeft = MaxToggles - 1
    /\ isSending
    /\ posts = 1

----------------------------------------------------------------------------
(* The completion of a submission, under SpecLive *)

-----------------------------------------------------------------------------
(* The completion-forwarding endpoint: handleAsk of src/server/proxy.js     *)
(* ("proxy"), the shared handleAsk of the second server ("shared") and the   *)
(* /api/claude route that relays with fetch ("forward")                      *)

Handlers == {"proxy", "shared", "forward"}

\* a field of the JSON body: absent, "", whitespace only, or a text
Fields == {"missing", "empty", "blank", "given"}

Requests == [question : Fields, text : Fields, system : Fields]

\* the statuses the provider answers an unsuccessful call with
ProviderStatuses == {400, 401, 404, 429, 500, 529}

\* what the call to the provider comes to: a message (with parts content
\* blocks) or a 2xx response, an error that carries the provider's status, a
\* rejection without a status, or the 55 s timer winning the race
UpstreamOutcomes ==
    {[type |-> "success", status |-> 200, parts |-> n] : n \in 0..1}
    \cup {[type |-> "error", status |-> s, parts |-> 0] : s \in ProviderStatuses}
    \cup {[type |-> "reject", status |-> 0, parts |-> 0],
          [type |-> "timeout", status |-> 0, parts |-> 0]}

\* JavaScript truthiness of a body field
Truthy(f) == f \in {"blank", "given"}

\* req.body.question || req.body.text
QuestionOr(req) == IF Truthy(req.question) THEN req.question ELSE req.text

\* req.body?.question ?? req.body?.text ?? ""
QuestionCoalesce(req) ==
    IF req.question # "missing" THEN req.question
    ELSE IF req.text # "missing" THEN req.text ELSE "empty"

\* String(x || "").trim() is non-empty
Trimmed(f) == f = "given"

\* the question is rejected with 400 by handler h
MissingInput(h, req) ==
    CASE h = "proxy" -> ~Truthy(QuestionOr(req))
      [] h = "shared" -> ~Truthy(QuestionCoalesce(req))
      [] OTHER -> ~Trimmed(req.question) \/ ~Trimmed(req.system)

\* the reply sent before the provider is called, NoReply when it is called:
\* handleAsk tests the question first, the /api/claude route the key first
EarlyReply(h, hasKey, req) ==
    IF h = "forward"
    THEN IF ~hasKey THEN [status |-> 500, kind |-> "missingKey"]
         ELSE IF MissingInput(h, req) THEN [status |-> 400, kind |-> "missingInput"]
         ELSE NoReply
    ELSE IF MissingInput(h, req) THEN [status |-> 400, kind |-> "missingInput"]
         ELSE IF ~hasKey THEN [status |-> 500, kind |-> "missingKey"]
         ELSE NoReply

\* ErrorStatus with the error's status ignored
ErrorStatusAlways500(e) == 500

\* e.status || 500 in the catch of handleAsk
ErrorStatus(e) == IF e.status # 0 THEN e.status ELSE 500

\* the reply of handler h to outcome o of the provider call
ReplyTo(h, o) ==
    CASE o.type = "success" ->
           [status |-> 200,
            kind |-> IF h = "forward" THEN "raw"
                     ELSE IF o.parts > 0 THEN "answer" ELSE "noText"]
      [] o.type = "error" ->
           [status |-> IF h = "forward" THEN o.status ELSE ErrorStatus(o),
            kind |-> "error"]
      [] OTHER ->
           IF h = "forward" THEN [status |-> 500, kind |-> "exception"]
           ELSE [status |-> ErrorStatus(o), kind |-> "error"]

\* the state of the pages, which the endpoint never touches
clientVars == <<messages, input, isSending, docs, docAvail, mode, banner,
                healthOk, dispatchVars, ev, nextId, acceptsLeft, togglesLeft,
                net, availPc, probeNet, knowledgeVars>>

\* a POST reaches one of the routes: the handler validates it and either
\* replies at once or awaits the provider
receive ==
    /\ server.pc # "call"
    /\ \E h \in Handlers, hasKey \in BOOLEAN, req \in Requests :
         LET early == EarlyReply(h, hasKey, req)
         IN server' = [pc |-> IF early = NoReply THEN "call" ELSE "replied",
                       handler |-> h, hasKey |-> hasKey, req |-> req,
                       upstream |-> NoUpstream, reply |-> early]
    /\ UNCHANGED clientVars

\* the awaited call (or the race with the timer) settles and the reply is sent
upstreamSettles ==
    /\ server.pc = "call"
    /\ \E o \in UpstreamOutcomes :
         /\ o.type = "timeout" => server.handler # "forward"
         /\ server' = [server EXCEPT !.pc = "replied", !.upstream = o,
                                     !.reply = ReplyTo(server.handler, o)]
    /\ UNCHANGED clientVars

\* the endpoint alone: the pages idle, any request, any provider outcome
InitServer ==
    /\ InitApp
    /\ NoProbes
    /\ InitPrefs({NoEntry("cloud")}, {NoEntry(DEFAULT_DOCS)})
    /\ input = <<>>
    /\ acceptsLeft = 0
    /\ net = {}
    /\ NoMatrix

NextServer == receive \/ upstreamSettles

SpecServer == InitServer /\ [][NextServer]_vars

\* a reply was sent to a request whose provider call settled with outcome t
Answered(t) == server.pc = "replied" /\ server.upstream.type = t

\* C31: a provider error is answered with the provider's HTTP status, an
\* error without a status, the endpoint's own upstream timeout included, is
\* answered with 500, and a provider success is answered with 200.
C31_ProviderStatusForwarded ==
    /\ Answered("error") => /\ server.reply.status = server.upstream.status
                            /\ server.reply.status \in ProviderStatuses
    /\ Answered("reject") => server.reply.status = 500
    /\ Answered("timeout") => server.reply.status = 500
    /\ Answered("success") => server.reply.status = 200

\* the shared handler forwarded the provider's 429
C31_Witness ==
    /\ Answered("error")
    /\ server.handler = "shared"
    /\ server.upstream.status = 429
    /\ server.reply = [status |-> 429, kind |-> "error"]

====
